---- MODULE Spec2Model ----
(***************************************************************************)
(* A model of ledger's commoditized amounts (src/src/amount.h) and of the  *)
(* commodity pool that interns their commodities (src/src/commodity.h).    *)
(*                                                                         *)
(* Memory is modelled as three collections: `bases' (commodity_base_t      *)
(* objects), `heap' (commodity_t and annotated_commodity_t objects) and    *)
(* `pools' (commodity_pool_t objects).  A pointer is an index into its     *)
(* collection and 0 is the NULL pointer.  optional<T> is a sequence of     *)
(* length at most one: <<>> is the uninitialized optional.                 *)
(***************************************************************************)
EXTENDS Integers, Sequences, FiniteSets, TLC

VARIABLES
  default_pool,  \* amount_t::default_pool: a pool pointer, 0 when unset
  pools,         \* pool pointer -> commodity_pool_t
  heap,          \* commodity pointer -> commodity_t / annotated_commodity_t
  bases,         \* base pointer -> commodity_base_t
  amounts,       \* the amount_t objects of the program
  last,          \* the last call: its arguments and what it returned
  keep_price,    \* amount_t::keep_price
  keep_date,     \* amount_t::keep_date
  keep_tag       \* amount_t::keep_tag

statics == <<keep_price, keep_date, keep_tag>>

vars == <<default_pool, pools, heap, bases, amounts, last, statics>>

(***************************************************************************)
(* Bounds of the model.                                                    *)
(***************************************************************************)
MaxPools == 2        \* pools ever constructed
MaxCommodities == 4  \* commodities per pool, the null commodity included
MaxLoose == 1        \* commodity_t objects constructed outside any pool
MaxPrecision == 1    \* largest display precision handed to set_precision
MaxHeap == 4         \* commodity objects while commodities and amounts are compared
MaxSubscribers == 2   \* subscribers connected to a pool's get_quote
MaxMoment == 2        \* the moments of time, 1..MaxMoment
MaxLotCommodities == 3  \* commodities of the pool whose bases are mutated

(***************************************************************************)
(* Program constants.                                                      *)
(***************************************************************************)
COMMODITY_STYLE_DEFAULTS == 0
COMMODITY_STYLE_SUFFIXED == 1
COMMODITY_STYLE_NOMARKET == 16
COMMODITY_STYLE_BUILTIN == 32

NULL == 0

Some(v) == <<v>>
None == <<>>

(***************************************************************************)
(* commodity_base_t: flags is the set of style bits that are on.           *)
(***************************************************************************)
commodity_base_t(symbol, precision, flags) ==
  [flags |-> flags, symbol |-> symbol, precision |-> precision,
   name |-> None, note |-> None, history |-> None,
   smaller |-> None, larger |-> None]

(***************************************************************************)
(* annotation_t                                                            *)
(***************************************************************************)
annotation_t(price, date, tag) == [price |-> price, date |-> date, tag |-> tag]

NoDetails == annotation_t(None, None, None)

\* annotation_t::operator bool
annotation_bool(d) == d.price /= None \/ d.date /= None \/ d.tag /= None

(***************************************************************************)
(* commodity_t(parent, base): annotated is false, the optionals are        *)
(* uninitialized and ident is whatever the caller stores next.  The fields *)
(* ptr and details exist in annotated_commodity_t only; a plain commodity  *)
(* carries NULL and NoDetails there.                                       *)
(***************************************************************************)
commodity_t(parent, base) ==
  [base |-> base, parent_ |-> parent, ident |-> 0,
   qualified_symbol |-> None, mapping_key_ |-> None,
   annotated |-> FALSE, ptr |-> NULL, details |-> NoDetails]

\* A faulty variant of annotated_commodity_t(ptr, details): the base is not the
\* referent's but the first base of the program, the null commodity's.
annotated_commodity_t_other_base(h, ptr, details) ==
  [commodity_t(h[ptr].parent_, 1) EXCEPT
     !.annotated = TRUE, !.ptr = ptr, !.details = details]

\* annotated_commodity_t(ptr, details): parent and base are the referent's.
annotated_commodity_t(h, ptr, details) ==
  [commodity_t(h[ptr].parent_, h[ptr].base) EXCEPT
     !.annotated = TRUE, !.ptr = ptr, !.details = details]

(***************************************************************************)
(* Which objects are alive.  ~commodity_pool_t deletes every commodity of  *)
(* its collection, so a commodity a destroyed pool held is a dangling      *)
(* pointer; a commodity_t constructed outside any pool is never deleted.   *)
(***************************************************************************)
PoolIds == 1..MaxPools

pool_live(p) == p \in PoolIds /\ pools[p].state = "live"

commodity_live(c) ==
  /\ c \in 1..Len(heap)
  /\ \A p \in PoolIds : c \in pools[p].commodities => pools[p].state = "live"

(***************************************************************************)
(* amount_t: quantity is the optional bigint (val / 10^prec), commodity_   *)
(* the commodity pointer.                                                  *)
(***************************************************************************)
amount_t(quantity, comm) == [quantity |-> quantity, commodity_ |-> comm]

\* keep_prec marks a quantity that is displayed at its full precision.
bigint_t(val, prec) == [val |-> val, prec |-> prec, keep_prec |-> FALSE]

\* amount_t::amount_t()
null_amount == amount_t(None, NULL)

\* amount_t::has_commodity reads commodity_->parent().null_commodity: it is
\* defined when commodity_ is NULL or points to a live commodity of a live pool.
has_commodity_defined(a) ==
  \/ a.commodity_ = NULL
  \/ /\ commodity_live(a.commodity_)
     /\ pool_live(heap[a.commodity_].parent_)

\* A faulty variant of has_commodity: the pool's null commodity is not looked at.
has_commodity_non_null(a) == a.commodity_ /= NULL

has_commodity(a) ==
  /\ a.commodity_ /= NULL
  /\ a.commodity_ /= pools[heap[a.commodity_].parent_].null_commodity

\* amount_t::commodity dereferences default_pool when there is no commodity.
commodity_defined(a) ==
  /\ has_commodity_defined(a)
  /\ has_commodity(a) \/ pool_live(default_pool)

commodity(a) ==
  IF has_commodity(a) THEN a.commodity_ ELSE pools[default_pool].null_commodity

\* amount_t::is_null
is_null(a) == a.quantity = None /\ ~has_commodity(a)

Bool(b) == IF b THEN "true" ELSE "false"

RECURSIVE Pow10(_)
Pow10(n) == IF n = 0 THEN 1 ELSE 10 * Pow10(n - 1)

Max(x, y) == IF x >= y THEN x ELSE y

\* The value of a quantity at scale prec; an absent quantity counts as zero.
scaled(q, prec) == IF q = None THEN 0 ELSE q[1].val * Pow10(prec - q[1].prec)

quantity_prec(q) == IF q = None THEN 0 ELSE q[1].prec

\* amount_t::compare between amounts of equal commodities: align the scales,
\* compare the numerators.
compare(a, b) ==
  LET p == Max(quantity_prec(a.quantity), quantity_prec(b.quantity))
      x == scaled(a.quantity, p)
      y == scaled(b.quantity, p)
  IN IF x < y THEN -1 ELSE IF x > y THEN 1 ELSE 0

RECURSIVE commodity_eq(_, _), commodity_eq_defined(_, _)
RECURSIVE amount_eq(_, _), amount_eq_defined(_, _)

\* boost::optional<amount_t> equality, as annotation_t::operator== uses it
optional_amount_eq(l, r) ==
  IF l = None \/ r = None THEN l = r ELSE amount_eq(l[1], r[1])

optional_amount_eq_defined(l, r) ==
  l = None \/ r = None \/ amount_eq_defined(l[1], r[1])

\* A faulty variant of annotation_t::operator==: the tag is not compared.
annotation_eq_without_tag(l, r) ==
  /\ optional_amount_eq(l.price, r.price)
  /\ l.date = r.date

\* annotation_t::operator==
annotation_eq(l, r) ==
  /\ optional_amount_eq(l.price, r.price)
  /\ l.date = r.date
  /\ l.tag = r.tag

annotation_eq_defined(l, r) == optional_amount_eq_defined(l.price, r.price)

\* annotated_commodity_t::operator==
annotated_commodity_eq(x, y) ==
  /\ heap[y].annotated
  /\ commodity_eq(heap[x].ptr, heap[y].ptr)
  /\ annotation_eq(heap[x].details, heap[y].details)

annotated_commodity_eq_defined(x, y) ==
  \/ ~heap[y].annotated
  \/ /\ commodity_eq_defined(heap[x].ptr, heap[y].ptr)
     /\ \/ ~commodity_eq(heap[x].ptr, heap[y].ptr)
        \/ annotation_eq_defined(heap[x].details, heap[y].details)

\* Faulty variants of commodity_t::operator==: one compares the mapping keys, one
\* does not hand the comparison to an annotated right operand.
plain_commodity_eq_by_key(x, y) ==
  IF heap[y].annotated
    THEN commodity_eq(y, x)
    ELSE LET key(c) == IF heap[c].mapping_key_ /= None
                         THEN heap[c].mapping_key_[1]
                         ELSE bases[heap[c].base].symbol
         IN key(x) = key(y)

plain_commodity_eq_not_delegated(x, y) == heap[x].base = heap[y].base

\* commodity_t::operator==
plain_commodity_eq(x, y) ==
  IF heap[y].annotated
    THEN commodity_eq(y, x)
    ELSE heap[x].base = heap[y].base

\* x == y for commodity pointers x and y: operator== is virtual.
commodity_eq(x, y) ==
  IF heap[x].annotated THEN annotated_commodity_eq(x, y)
                       ELSE plain_commodity_eq(x, y)

commodity_eq_defined(x, y) ==
  /\ commodity_live(x)
  /\ commodity_live(y)
  /\ IF heap[x].annotated THEN annotated_commodity_eq_defined(x, y)
     ELSE IF heap[y].annotated THEN annotated_commodity_eq_defined(y, x)
     ELSE TRUE

\* amount_t::compare raises an error for amounts of distinct commodities.
compare_throws(a, b) ==
  /\ has_commodity(a)
  /\ has_commodity(b)
  /\ ~commodity_eq(commodity(a), commodity(b))

\* A faulty variant of amount_t::operator==: the commodities are not looked at
\* before compare is called.
amount_eq_value_by_compare(a, b) ==
  IF compare_throws(a, b) THEN "error" ELSE Bool(compare(a, b) = 0)

\* amount_t::operator==: "true", "false", or "error" when compare raises
amount_eq_value(a, b) ==
  IF ~commodity_eq(commodity(a), commodity(b))
    THEN "false"
    ELSE IF compare_throws(a, b) THEN "error" ELSE Bool(compare(a, b) = 0)

amount_eq(a, b) == amount_eq_value(a, b) = "true"

amount_eq_defined(a, b) ==
  /\ commodity_defined(a)
  /\ commodity_defined(b)
  /\ commodity_eq_defined(commodity(a), commodity(b))

(***************************************************************************)
(* flags_t is uint_least8_t: the bitwise operators of add_flags and        *)
(* drop_flags on 8 bits.                                                   *)
(***************************************************************************)
RECURSIVE BitAnd(_, _)
BitAnd(x, y) ==
  IF x = 0 \/ y = 0 THEN 0
  ELSE (x % 2) * (y % 2) + 2 * BitAnd(x \div 2, y \div 2)

BitOr(x, y) == x + y - BitAnd(x, y)

BitNot(x) == 255 - x

(***************************************************************************)
(* A world is the memory the pool operations work on: they are functions   *)
(* from a world to a world and a returned pointer, so that one operation   *)
(* can call another.                                                       *)
(***************************************************************************)
World == [heap |-> heap, bases |-> bases, pools |-> pools]

Result(w, ret, err) == [w |-> w, ret |-> ret, err |-> err]

\* commodity_t::base_symbol
base_symbol(w, c) == w.bases[w.heap[c].base].symbol

\* commodity_t::symbol
symbol(w, c) ==
  IF w.heap[c].qualified_symbol /= None
    THEN w.heap[c].qualified_symbol[1]
    ELSE base_symbol(w, c)

\* A faulty variant of commodity_t::mapping_key: it falls back to symbol(), the
\* quoted symbol, instead of base_symbol().
mapping_key_by_symbol(w, c) ==
  IF w.heap[c].mapping_key_ /= None
    THEN w.heap[c].mapping_key_[1]
    ELSE symbol(w, c)

\* commodity_t::mapping_key
mapping_key(w, c) ==
  IF w.heap[c].mapping_key_ /= None
    THEN w.heap[c].mapping_key_[1]
    ELSE base_symbol(w, c)

\* commodity_t::symbol_needs_quotes on the symbols of the model: a digit or
\* a blank in the symbol asks for quotes.
symbol_needs_quotes(sym) == sym \in {"B1", "C 2"}

(***************************************************************************)
(* The accessors and mutators of commodity_t: all of them read and write   *)
(* the commodity_base_t the commodity points to.                           *)
(***************************************************************************)
base_of(w, c) == w.bases[w.heap[c].base]

name(w, c) == base_of(w, c).name
note(w, c) == base_of(w, c).note
precision(w, c) == base_of(w, c).precision
flags(w, c) == base_of(w, c).flags
smaller(w, c) == base_of(w, c).smaller
larger(w, c) == base_of(w, c).larger

set_name(w, c, arg) == [w EXCEPT !.bases[w.heap[c].base].name = arg]
set_note(w, c, arg) == [w EXCEPT !.bases[w.heap[c].base].note = arg]
set_precision(w, c, arg) == [w EXCEPT !.bases[w.heap[c].base].precision = arg]
set_flags(w, c, arg) == [w EXCEPT !.bases[w.heap[c].base].flags = arg]
add_flags(w, c, arg) == [w EXCEPT !.bases[w.heap[c].base].flags = BitOr(@, arg)]
drop_flags(w, c, arg) ==
  [w EXCEPT !.bases[w.heap[c].base].flags = BitAnd(@, BitNot(arg))]
set_smaller(w, c, arg) == [w EXCEPT !.bases[w.heap[c].base].smaller = arg]
set_larger(w, c, arg) == [w EXCEPT !.bases[w.heap[c].base].larger = arg]

\* Faulty variants of commodities_t: a container whose indices are not unique, and
\* one whose ident index alone is unique.
commodities_insert_non_unique(w, p, c) ==
  [second |-> TRUE, w |-> [w EXCEPT !.pools[p].commodities = @ \cup {c}]]

commodities_insert_ident_only(w, p, c) ==
  LET clash == \E x \in w.pools[p].commodities : w.heap[x].ident = w.heap[c].ident
  IN [second |-> ~clash,
      w |-> IF clash THEN w
            ELSE [w EXCEPT !.pools[p].commodities = @ \cup {c}]]

(***************************************************************************)
(* commodities_t: a multi_index_container of commodity pointers with two   *)
(* unique indices, ident and mapping_key().  insert refuses a pointer      *)
(* whose ident or mapping key an element already has.                      *)
(***************************************************************************)
commodities_insert(w, p, c) ==
  LET clash == \E x \in w.pools[p].commodities :
                 \/ w.heap[x].ident = w.heap[c].ident
                 \/ mapping_key(w, x) = mapping_key(w, c)
  IN [second |-> ~clash,
      w |-> IF clash THEN w
            ELSE [w EXCEPT !.pools[p].commodities = @ \cup {c}]]

commodities_size(w, p) == Cardinality(w.pools[p].commodities)

\* commodity_pool_t::create(symbol)
create(w, p, sym) ==
  LET b == Len(w.bases) + 1
      c == Len(w.heap) + 1
      obj == [commodity_t(p, b) EXCEPT
                !.qualified_symbol =
                   IF symbol_needs_quotes(sym)
                     THEN Some("\"" \o sym \o "\"") ELSE None,
                !.ident = commodities_size(w, p)]
      w1 == [w EXCEPT
               !.bases = Append(@, commodity_base_t(sym, 0, COMMODITY_STYLE_DEFAULTS)),
               !.heap = Append(@, obj)]
      ins == commodities_insert(w1, p, c)
  IN IF ins.second THEN Result(ins.w, c, "")
                   ELSE Result(w, NULL, "DuplicateSymbol")

\* commodity_pool_t::find(name): the lookup in the mapping_key index
find(w, p, key) ==
  LET hit == {x \in w.pools[p].commodities : mapping_key(w, x) = key}
  IN IF hit = {} THEN NULL ELSE CHOOSE x \in hit : TRUE

\* commodity_pool_t::find(ident): the lookup in the ident index
find_ident(w, p, ident) ==
  LET hit == {x \in w.pools[p].commodities : w.heap[x].ident = ident}
  IN IF hit = {} THEN NULL ELSE CHOOSE x \in hit : TRUE

\* commodity_pool_t::find_or_create(symbol)
find_or_create(w, p, sym) ==
  LET c == find(w, p, sym)
  IN IF c /= NULL THEN Result(w, c, "") ELSE create(w, p, sym)

(***************************************************************************)
(* The canonical rendering of symbol + annotation that keys an annotated   *)
(* commodity: the price with its trailing zeros dropped, then the date,    *)
(* then the tag.                                                           *)
(***************************************************************************)
RECURSIVE normalize(_)
normalize(q) ==
  IF q.prec > 0 /\ q.val % 10 = 0
    THEN normalize(bigint_t(q.val \div 10, q.prec - 1))
    ELSE q

amount_string(w, a) ==
  LET n == IF a.quantity = None THEN bigint_t(0, 0) ELSE normalize(a.quantity[1])
  IN ToString(n.val) \o "e-" \o ToString(n.prec)
       \o (IF a.commodity_ = NULL THEN "" ELSE " " \o symbol(w, a.commodity_))

\* annotated_commodity_t::write_annotations
write_annotations(w, d) ==
  (IF d.price = None THEN "" ELSE " {" \o amount_string(w, d.price[1]) \o "}")
  \o (IF d.date = None THEN "" ELSE " [" \o d.date[1] \o "]")
  \o (IF d.tag = None THEN "" ELSE " (" \o d.tag[1] \o ")")

make_qualified_name(w, comm, d) == symbol(w, comm) \o write_annotations(w, d)

\* commodity_pool_t::create(comm, details, mapping_key)
create_comm(w, p, comm, d, key) ==
  LET c == Len(w.heap) + 1
      obj == [annotated_commodity_t(w.heap, comm, d) EXCEPT
                !.qualified_symbol = w.heap[comm].qualified_symbol,
                !.ident = commodities_size(w, p),
                !.mapping_key_ = Some(key)]
      w1 == [w EXCEPT !.heap = Append(@, obj)]
      ins == commodities_insert(w1, p, c)
  IN IF ins.second THEN Result(ins.w, c, "")
                   ELSE Result(w, NULL, "DuplicateSymbol")

\* commodity_pool_t::find_or_create(comm, details)
find_or_create_comm(w, p, comm, d) ==
  LET key == make_qualified_name(w, comm, d)
      c == find(w, p, key)
  IN IF c /= NULL THEN Result(w, c, "") ELSE create_comm(w, p, comm, d, key)

\* commodity_pool_t::create(symbol, details)
create_details(w, p, sym, d) ==
  IF ~annotation_bool(d) THEN create(w, p, sym)
  ELSE LET r == find_or_create(w, p, sym)
       IN create_comm(r.w, p, r.ret, d, make_qualified_name(r.w, r.ret, d))

\* commodity_pool_t::find(symbol, details)
find_details(w, p, sym, d) ==
  LET comm == find(w, p, sym)
  IN IF comm = NULL THEN NULL
     ELSE IF annotation_bool(d) THEN find(w, p, make_qualified_name(w, comm, d))
     ELSE comm

\* commodity_pool_t::find_or_create(symbol, details)
find_or_create_details(w, p, sym, d) ==
  LET r == find_or_create(w, p, sym)
  IN IF annotation_bool(d) THEN find_or_create_comm(r.w, p, r.ret, d) ELSE r

\* commodity_pool_t::commodity_pool_t(): the pool comes alive holding its
\* null commodity, the commodity of the empty symbol.
commodity_pool_t(w, p) ==
  LET w1 == [w EXCEPT !.pools[p] =
               [state |-> "live", commodities |-> {},
                null_commodity |-> NULL, default_commodity |-> NULL,
                get_quote |-> <<>>]]
      r == create(w1, p, "")
  IN [r.w EXCEPT !.pools[p].null_commodity = r.ret]

\* ~commodity_pool_t(): every commodity of the collection is deleted.
destroy_pool(w, p) == [w EXCEPT !.pools[p].state = "dead"]

(***************************************************************************)
(* get_quote: the subscribers of the signal are called in the order they   *)
(* were connected, and first_initialized combines what they return.  A     *)
(* subscriber is a callback of the host; the ones modelled here quote a    *)
(* fixed price for the commodities of one symbol ("*": of every symbol).   *)
(***************************************************************************)
Slot(sym, price) == [sym |-> sym, price |-> price]

slot_call(w, s, c, date, moment, lst) ==
  IF s.sym = "*" \/ s.sym = base_symbol(w, c)
    THEN Some(amount_t(Some(bigint_t(s.price, 0)), NULL))
    ELSE None

\* A faulty variant of first_initialized: the last initialized result wins.
RECURSIVE last_initialized(_)
last_initialized(results) ==
  IF results = <<>> THEN None
  ELSE IF results[Len(results)] /= None THEN results[Len(results)]
  ELSE last_initialized(SubSeq(results, 1, Len(results) - 1))

\* commodity_pool_t::first_initialized<T>::operator()(first, last)
RECURSIVE first_initialized(_)
first_initialized(results) ==
  IF results = <<>> THEN None
  ELSE IF Head(results) /= None THEN Head(results)
  ELSE first_initialized(Tail(results))

\* pool.get_quote.connect(s)
connect(w, p, s) == [w EXCEPT !.pools[p].get_quote = Append(@, s)]

\* pool.get_quote(commodity, date, moment, last)
get_quote(w, p, c, date, moment, lst) ==
  first_initialized([i \in 1..Len(w.pools[p].get_quote) |->
                       slot_call(w, w.pools[p].get_quote[i], c, date, moment, lst)])

(***************************************************************************)
(* The price history of a commodity's base: history_map is a std::map,     *)
(* modelled as the sequence of its (date, price) nodes in key order.       *)
(***************************************************************************)
history_pair(date, price) == [date |-> date, price |-> price]

history_t == [prices |-> <<>>, last_lookup |-> None]

history_of(w, c) ==
  LET h == w.bases[w.heap[c].base].history
  IN IF h = None THEN history_t ELSE h[1]

\* std::map::insert of a date the map does not hold yet
history_insert(prices, date, price) ==
  SelectSeq(prices, LAMBDA e : e.date < date)
    \o <<history_pair(date, price)>>
    \o SelectSeq(prices, LAMBDA e : e.date > date)

\* A faulty variant of add_price: the price is inserted whether or not the
\* date has one already.
add_price_inserting(w, c, date, price) ==
  LET h == history_of(w, c)
  IN [w EXCEPT !.bases[w.heap[c].base].history =
        Some([h EXCEPT !.prices =
                SelectSeq(@, LAMBDA e : e.date <= date)
                  \o <<history_pair(date, price)>>
                  \o SelectSeq(@, LAMBDA e : e.date > date)])]

\* commodity_t::add_price(date, price): the price of a date already in the
\* history is overwritten.
add_price(w, c, date, price) ==
  LET h == history_of(w, c)
      i == {j \in 1..Len(h.prices) : h.prices[j].date = date}
  IN [w EXCEPT !.bases[w.heap[c].base].history =
        Some([h EXCEPT !.prices =
                IF i = {} THEN history_insert(@, date, price)
                ELSE [j \in 1..Len(@) |->
                        IF j \in i THEN history_pair(date, price) ELSE @[j]]])]

\* commodity_t::remove_price(date): whether a price was removed, and the
\* world afterwards.
remove_price(w, c, date) ==
  LET h == w.bases[w.heap[c].base].history
      n == IF h = None THEN 0
           ELSE Len(SelectSeq(h[1].prices, LAMBDA e : e.date = date))
  IN [ret |-> n > 0,
      w |-> IF n = 0 THEN w
            ELSE [w EXCEPT !.bases[w.heap[c].base].history =
                    Some([h[1] EXCEPT !.prices =
                            SelectSeq(@, LAMBDA e : e.date /= date)])]]

\* A faulty variant of the history lookup: the earliest price is taken.
earliest_price(prices, at) ==
  LET upto == SelectSeq(prices, LAMBDA e : at = None \/ e.date <= at[1])
  IN IF upto = <<>> THEN None ELSE Some(upto[1].price)

\* The price of the greatest date at or before `at', the latest price when
\* `at' is omitted.
price_at(prices, at) ==
  LET upto == SelectSeq(prices, LAMBDA e : at = None \/ e.date <= at[1])
  IN IF upto = <<>> THEN None ELSE Some(upto[Len(upto)].price)

\* commodity_t::value(moment), called at time now: the price returned, the
\* number of get_quote lookups made, and the world afterwards.
value(w, c, at, now) ==
  LET h == history_of(w, c)
      known == price_at(h.prices, at)
  IN IF known /= None THEN [w |-> w, ret |-> known, lookups |-> 0]
     ELSE LET quote == get_quote(w, w.heap[c].parent_, c, at, Some(now), h.last_lookup)
              w1 == IF quote = None THEN w ELSE add_price(w, c, now, quote[1])
          IN [w |-> [w1 EXCEPT !.bases[w.heap[c].base].history =
                       Some([history_of(w1, c) EXCEPT !.last_lookup = Some(now)])],
              ret |-> quote, lookups |-> 1]

(***************************************************************************)
(* Parsing.  The text of an amount is modelled after lexing: the           *)
(* characters of the number, the commodity symbol ("" when there is none), *)
(* whether the symbol followed the number, whether a blank separated them, *)
(* and the annotation.                                                     *)
(***************************************************************************)
AMOUNT_PARSE_NO_MIGRATE == 1
AMOUNT_PARSE_NO_REDUCE == 2

COMMODITY_STYLE_SEPARATED == 2

Text(number, sym, suffixed, separated, d) ==
  [number |-> number, sym |-> sym, suffixed |-> suffixed,
   separated |-> separated, details |-> d]

NoText == Text(<<>>, "", FALSE, FALSE, NoDetails)

DigitValue(ch) ==
  CASE ch = "0" -> 0 [] ch = "1" -> 1 [] ch = "2" -> 2 [] ch = "3" -> 3
    [] ch = "4" -> 4 [] ch = "5" -> 5 [] ch = "6" -> 6 [] ch = "7" -> 7
    [] ch = "8" -> 8 [] ch = "9" -> 9

\* The digits of chars read as one integer, the decimal point skipped.
RECURSIVE parse_digits(_, _)
parse_digits(chars, acc) ==
  IF chars = <<>> THEN acc
  ELSE IF Head(chars) \in {".", "-"} THEN parse_digits(Tail(chars), acc)
  ELSE parse_digits(Tail(chars), 10 * acc + DigitValue(Head(chars)))

\* The number of digits after the decimal point.
RECURSIVE fraction_digits(_)
fraction_digits(chars) ==
  IF chars = <<>> \/ \A i \in 1..Len(chars) : chars[i] /= "." THEN 0
  ELSE IF Head(chars) = "." THEN Len(chars) - 1
  ELSE fraction_digits(Tail(chars))

parse_quantity(chars) ==
  LET n == parse_digits(chars, 0)
  IN bigint_t(IF chars /= <<>> /\ Head(chars) = "-" THEN -n ELSE n,
              fraction_digits(chars))

observed_flags(text) ==
  BitOr(IF text.suffixed THEN COMMODITY_STYLE_SUFFIXED ELSE COMMODITY_STYLE_DEFAULTS,
        IF text.separated THEN COMMODITY_STYLE_SEPARATED ELSE COMMODITY_STYLE_DEFAULTS)

\* What parsing teaches the commodity c, unless AMOUNT_PARSE_NO_MIGRATE is given.
migrate(w, c, text, style) ==
  IF BitAnd(style, AMOUNT_PARSE_NO_MIGRATE) /= 0 THEN w
  ELSE [w EXCEPT
          !.bases[w.heap[c].base].precision =
             Max(@, fraction_digits(text.number)),
          !.bases[w.heap[c].base].flags = BitOr(@, observed_flags(text))]

\* amount_t::in_place_reduce: multiply by the commodity's smaller amount and
\* take its commodity, while there is one.
RECURSIVE in_place_reduce(_, _)
in_place_reduce(w, a) ==
  IF a.commodity_ = NULL \/ w.bases[w.heap[a.commodity_].base].smaller = None
    THEN a
    ELSE LET s == w.bases[w.heap[a.commodity_].base].smaller[1]
         IN in_place_reduce(w,
              amount_t(Some(bigint_t(a.quantity[1].val * s.quantity[1].val,
                                     a.quantity[1].prec + s.quantity[1].prec)),
                       s.commodity_))

\* The quantity is marked to be displayed at its full precision.
keep_precision(q) == [q EXCEPT !.keep_prec = TRUE]

\* amount_t::parse(parent, in, flags): the amount parsed, and the pool after
\* it.  Unless AMOUNT_PARSE_NO_MIGRATE is given the commodity learns the
\* precision and the style of the text; with it the amount keeps its
\* precision on display instead.
parse(w, p, text, style) ==
  LET q == Some(IF BitAnd(style, AMOUNT_PARSE_NO_MIGRATE) /= 0
                  THEN keep_precision(parse_quantity(text.number))
                  ELSE parse_quantity(text.number))
  IN IF text.sym = "" THEN [w |-> w, amt |-> amount_t(q, NULL)]
     ELSE LET r == find_or_create(w, p, text.sym)
              w1 == migrate(r.w, r.ret, text, style)
              ann == IF annotation_bool(text.details)
                       THEN find_or_create_comm(w1, p, r.ret, text.details)
                       ELSE Result(w1, r.ret, "")
              a == amount_t(q, ann.ret)
          IN [w |-> ann.w,
              amt |-> IF BitAnd(style, AMOUNT_PARSE_NO_REDUCE) /= 0
                        THEN a ELSE in_place_reduce(ann.w, a)]

(***************************************************************************)
(* Printing: the commodity before or after the number as its flags say,    *)
(* the number rounded half away from zero to the commodity's display       *)
(* precision, or at its full precision when full_precision is asked for or *)
(* the quantity is marked.                                                 *)
(***************************************************************************)
Abs(n) == IF n < 0 THEN -n ELSE n

\* The k low decimal digits of n, leading zeros included.
RECURSIVE digits(_, _)
digits(n, k) == IF k = 0 THEN "" ELSE digits(n \div 10, k - 1) \o ToString(n % 10)

number_string(val, prec) ==
  (IF val < 0 THEN "-" ELSE "")
    \o ToString(Abs(val) \div Pow10(prec))
    \o (IF prec = 0 THEN "" ELSE "." \o digits(Abs(val) % Pow10(prec), prec))

\* val at scale from, brought to scale to: rounded half away from zero, or
\* padded with zeros.
display_round(val, from, to) ==
  IF to >= from THEN val * Pow10(to - from)
  ELSE LET m == Pow10(from - to)
           r == (Abs(val) + m \div 2) \div m
       IN IF val < 0 THEN -r ELSE r

\* amount_t::print(out, omit_commodity, full_precision) of an amount with a
\* quantity, as the string written to out.
print(w, a, omit_commodity, full_precision) ==
  LET q == a.quantity[1]
      c == a.commodity_
      bare == c = NULL \/ c = w.pools[w.heap[c].parent_].null_commodity
      prec == IF bare \/ full_precision \/ q.keep_prec
                THEN q.prec ELSE precision(w, c)
      num == number_string(display_round(q.val, q.prec, prec), prec)
      sep == IF ~bare /\ BitAnd(flags(w, c), COMMODITY_STYLE_SEPARATED) /= 0
               THEN " " ELSE ""
  IN IF bare \/ omit_commodity THEN num
     ELSE IF BitAnd(flags(w, c), COMMODITY_STYLE_SUFFIXED) /= 0
       THEN num \o sep \o symbol(w, c)
       ELSE symbol(w, c) \o sep \o num

\* amount_t::to_string and amount_t::to_fullstring
to_string(w, a) == print(w, a, FALSE, FALSE)

to_fullstring(w, a) == print(w, a, FALSE, TRUE)

(***************************************************************************)
(* Binary serialization.  write emits a presence byte, then for a present  *)
(* quantity its scale (little-endian i32), the length of the numerator     *)
(* (little-endian u32) and the numerator (two's complement, big-endian),   *)
(* then the ident of the commodity (little-endian u32, 0 for none).        *)
(***************************************************************************)
RECURSIVE Pow2(_)
Pow2(n) == IF n = 0 THEN 1 ELSE 2 * Pow2(n - 1)

\* n as k bytes, the least significant first
RECURSIVE little_endian(_, _)
little_endian(n, k) ==
  IF k = 0 THEN <<>> ELSE <<n % 256>> \o little_endian(n \div 256, k - 1)

RECURSIVE from_little_endian(_)
from_little_endian(bytes) ==
  IF bytes = <<>> THEN 0 ELSE Head(bytes) + 256 * from_little_endian(Tail(bytes))

\* n as k bytes, the most significant first
RECURSIVE big_endian(_, _)
big_endian(n, k) ==
  IF k = 0 THEN <<>> ELSE big_endian(n \div 256, k - 1) \o <<n % 256>>

RECURSIVE from_big_endian(_, _)
from_big_endian(bytes, acc) ==
  IF bytes = <<>> THEN acc ELSE from_big_endian(Tail(bytes), 256 * acc + Head(bytes))

\* The least number of bytes, at least k, that hold val in two's complement.
RECURSIVE byte_length(_, _)
byte_length(val, k) ==
  IF -Pow2(8 * k - 1) <= val /\ val < Pow2(8 * k - 1) THEN k ELSE byte_length(val, k + 1)

twos_complement(val) ==
  LET n == byte_length(val, 1)
  IN big_endian(IF val < 0 THEN val + Pow2(8 * n) ELSE val, n)

\* A faulty variant of from_twos_complement: the bytes are read as unsigned.
from_unsigned(bytes) == from_big_endian(bytes, 0)

from_twos_complement(bytes) ==
  LET u == from_big_endian(bytes, 0)
  IN IF u >= Pow2(8 * Len(bytes) - 1) THEN u - Pow2(8 * Len(bytes)) ELSE u

\* amount_t::write_quantity
write_quantity(a) ==
  IF a.quantity = None THEN <<0>>
  ELSE LET q == a.quantity[1]
           num == twos_complement(q.val)
       IN <<1>> \o little_endian(q.prec, 4) \o little_endian(Len(num), 4) \o num

\* amount_t::write(out): the bytes written
write(w, a) ==
  write_quantity(a)
    \o little_endian(IF a.commodity_ = NULL THEN 0 ELSE w.heap[a.commodity_].ident, 4)

\* amount_t::read_quantity: the quantity read and the bytes that follow it
read_quantity(data) ==
  IF Head(data) = 0 THEN [quantity |-> None, rest |-> Tail(data)]
  ELSE LET prec == from_little_endian(SubSeq(data, 2, 5))
           n == from_little_endian(SubSeq(data, 6, 9))
       IN [quantity |-> Some(bigint_t(from_twos_complement(SubSeq(data, 10, 9 + n)), prec)),
           rest |-> SubSeq(data, 10 + n, Len(data))]

\* amount_t::read(parent, in): the amount read, or the error raised
read(w, p, data) ==
  LET r == read_quantity(data)
      c == find_ident(w, p, from_little_endian(SubSeq(r.rest, 1, 4)))
  IN IF c = NULL THEN [amt |-> null_amount, err |-> "UnknownCommodity"]
     ELSE [amt |-> amount_t(r.quantity, c), err |-> ""]

(***************************************************************************)
(* The entry points that use amount_t::default_pool.  Each asserts that    *)
(* default_pool is set and then calls the operation of the pool; a failed  *)
(* assertion ends the call with the amount and the pools as they were.     *)
(***************************************************************************)
Outcome(w, amt, err) == [w |-> w, amt |-> amt, err |-> err]

\* A faulty variant of the assertion: without a default pool the call goes on
\* against the pool constructed last.
newest_pool(w, dp) ==
  IF dp /= NULL THEN dp
  ELSE IF \E p \in PoolIds : w.pools[p].state = "live"
    THEN CHOOSE p \in PoolIds :
           w.pools[p].state = "live" /\ \A q \in PoolIds : w.pools[q].state = "live" => q <= p
    ELSE NULL

\* assert(default_pool); *default_pool
asserted_pool(w, dp) == dp

\* amount_t::parse(in, flags) and amount_t::parse(str, flags) on the amount a
parse_default(w, dp, a, text, style) ==
  IF asserted_pool(w, dp) = NULL THEN Outcome(w, a, "assert")
  ELSE LET r == parse(w, asserted_pool(w, dp), text, style)
       IN Outcome(r.w, r.amt, "")

\* A faulty variant of exact: the text is parsed without AMOUNT_PARSE_NO_MIGRATE.
exact_migrating(w, dp, text) ==
  parse_default(w, dp, null_amount, text, 0)

\* amount_t::exact(value)
exact(w, dp, text) ==
  parse_default(w, dp, null_amount, text, AMOUNT_PARSE_NO_MIGRATE)

\* What parse_conversion does with the two amounts parsed, l and m: larger
\* is multiplied by the number of smaller, and each commodity learns the
\* other.
conversion_link(l, m) ==
  LET lq == l.amt.quantity[1]
      mq == m.amt.quantity[1]
      big == amount_t(Some(bigint_t(lq.val * mq.val, lq.prec + mq.prec)), l.amt.commodity_)
      w1 == IF l.amt.commodity_ = NULL THEN m.w
            ELSE add_flags(set_smaller(m.w, l.amt.commodity_, Some(m.amt)),
                           l.amt.commodity_,
                           BitOr(IF m.amt.commodity_ = NULL THEN COMMODITY_STYLE_DEFAULTS
                                 ELSE flags(m.w, m.amt.commodity_),
                                 COMMODITY_STYLE_NOMARKET))
  IN IF m.amt.commodity_ = NULL THEN w1
     ELSE set_larger(w1, m.amt.commodity_, Some(big))

\* amount_t::parse_conversion(parent, larger_str, smaller_str): both texts
\* are parsed with AMOUNT_PARSE_NO_REDUCE, the larger first.
parse_conversion(w, p, larger_text, smaller_text) ==
  CHOOSE linked \in
    UNION {{conversion_link(l, m) :
              m \in {parse(l.w, p, smaller_text, AMOUNT_PARSE_NO_REDUCE)}} :
            l \in {parse(w, p, larger_text, AMOUNT_PARSE_NO_REDUCE)}} : TRUE

\* amount_t::parse_conversion(larger_str, smaller_str)
parse_conversion_default(w, dp, a, larger_text, smaller_text) ==
  IF asserted_pool(w, dp) = NULL THEN Outcome(w, a, "assert")
  ELSE Outcome(parse_conversion(w, asserted_pool(w, dp), larger_text, smaller_text), a, "")

\* amount_t::read(in) and amount_t::read(data) on the amount a
read_default(w, dp, a, data) ==
  IF asserted_pool(w, dp) = NULL THEN Outcome(w, a, "assert")
  ELSE LET r == read(w, asserted_pool(w, dp), data)
       IN Outcome(w, IF r.err = "" THEN r.amt ELSE a, r.err)

(***************************************************************************)
(* The inputs the operations are called with.                              *)
(***************************************************************************)
Symbols == {"", "A", "B1"}

Price(val, prec) == Some(amount_t(Some(bigint_t(val, prec)), NULL))

Details ==
  {NoDetails,
   annotation_t(Price(20, 0), None, None),
   annotation_t(Price(200, 1), None, None),
   annotation_t(Price(30, 0), Some("2007/04/18"), None),
   annotation_t(Price(20, 0), None, Some("lot"))}

Quantities == {None, Some(bigint_t(0, 0)), Some(bigint_t(1, 0)), Some(bigint_t(10, 1))}

Names == {None, Some("name")}

\* The two amount_t objects of the program, the operands of a == b.
AmountIds == {1, 2}

Texts ==
  {Text(<<"1", "0">>, "", FALSE, FALSE, NoDetails),
   Text(<<"1", ".", "5">>, "A", TRUE, TRUE, NoDetails),
   Text(<<"-", "2", ".", "0">>, "B1", FALSE, FALSE,
        annotation_t(Price(20, 0), None, None))}

ParseFlags == {0, AMOUNT_PARSE_NO_MIGRATE}

(***************************************************************************)
(* The state after static construction: no pool, default_pool unset, every *)
(* amount default-constructed.                                             *)
(***************************************************************************)
unborn_pool ==
  [state |-> "unborn", commodities |-> {},
   null_commodity |-> NULL, default_commodity |-> NULL, get_quote |-> <<>>]

\* What `last' records of a call: the arguments, the returned pointer, the
\* error raised, and the pool as the call found it.
Call(op, p, sym, d, ret, err) ==
  [op |-> op, pool |-> p, sym |-> sym, details |-> d, ret |-> ret, err |-> err,
   size |-> IF p = NULL THEN 0 ELSE commodities_size(World, p),
   found |-> IF p = NULL THEN NULL ELSE find(World, p, sym),
   x |-> 0, y |-> 0, value |-> "", quote |-> None, lookups |-> 0, at |-> None,
   text |-> NoText, style |-> 0]

\* What `last' records of an operation on objects x and y (commodity
\* pointers, or amounts) that yields value.
Op(op, x, y, answer) ==
  [Call(op, NULL, "", NoDetails, NULL, "") EXCEPT !.x = x, !.y = y, !.value = answer]

Init ==
  /\ default_pool = NULL
  /\ pools = [p \in PoolIds |-> unborn_pool]
  /\ heap = <<>>
  /\ bases = <<>>
  /\ amounts = [i \in AmountIds |-> null_amount]
  /\ last = [op |-> "none", pool |-> NULL, sym |-> "", details |-> NoDetails,
             ret |-> NULL, err |-> "", size |-> 0, found |-> NULL,
             x |-> 0, y |-> 0, value |-> "", quote |-> None, lookups |-> 0, at |-> None,
   text |-> NoText, style |-> 0]
  /\ keep_price = FALSE
  /\ keep_date = FALSE
  /\ keep_tag = FALSE

Commit(w) ==
  /\ heap' = w.heap
  /\ bases' = w.bases
  /\ pools' = w.pools

unborn(p) == p \in PoolIds /\ pools[p].state = "unborn"

\* The next pool to be constructed.
next_pool == CHOOSE p \in PoolIds : unborn(p) /\ \A q \in PoolIds : unborn(q) => p <= q

(***************************************************************************)
(* amount_t::initialize and amount_t::shutdown: default_pool is set to a   *)
(* new pool, and released.                                                 *)
(***************************************************************************)
initialize ==
  /\ default_pool = NULL
  /\ \E p \in PoolIds : unborn(p)
  /\ default_pool' = next_pool
  /\ Commit(commodity_pool_t(World, next_pool))
  /\ last' = Call("initialize", NULL, "", NoDetails, NULL, "")
  /\ UNCHANGED <<amounts, statics>>

shutdown ==
  /\ default_pool /= NULL
  /\ Commit(destroy_pool(World, default_pool))
  /\ default_pool' = NULL
  /\ last' = Call("shutdown", NULL, "", NoDetails, NULL, "")
  /\ UNCHANGED <<amounts, statics>>

\* The program constructs a pool of its own.
new_pool ==
  /\ \E p \in PoolIds : unborn(p)
  /\ Commit(commodity_pool_t(World, next_pool))
  /\ last' = Call("commodity_pool_t", NULL, "", NoDetails, NULL, "")
  /\ UNCHANGED <<default_pool, amounts, statics>>

(***************************************************************************)
(* The pool's operations, called on a live pool.  max bounds the size of   *)
(* the pool the call may leave.                                            *)
(***************************************************************************)
PoolCall(op, p, sym, d, r, max) ==
  /\ commodities_size(r.w, p) <= max
  /\ Commit(r.w)
  /\ last' = Call(op, p, sym, d, r.ret, r.err)
  /\ UNCHANGED <<default_pool, amounts, statics>>

Create(p, sym, max) ==
  /\ pool_live(p)
  /\ PoolCall("create", p, sym, NoDetails, create(World, p, sym), max)

Find(p, sym) ==
  /\ pool_live(p)
  /\ PoolCall("find", p, sym, NoDetails,
              Result(World, find(World, p, sym), ""), MaxCommodities)

FindOrCreate(p, sym, max) ==
  /\ pool_live(p)
  /\ PoolCall("find_or_create", p, sym, NoDetails,
              find_or_create(World, p, sym), max)

CreateDetails(p, sym, d, max) ==
  /\ pool_live(p)
  /\ PoolCall("create_details", p, sym, d,
              create_details(World, p, sym, d), max)

FindDetails(p, sym, d) ==
  /\ pool_live(p)
  /\ PoolCall("find_details", p, sym, d,
              Result(World, find_details(World, p, sym, d), ""), MaxCommodities)

FindOrCreateDetails(p, sym, d, max) ==
  /\ pool_live(p)
  /\ PoolCall("find_or_create_details", p, sym, d,
              find_or_create_details(World, p, sym, d), max)

\* pool.parse_amount(amounts[i], text, flags)
Parse(p, i, text, style, max) ==
  /\ pool_live(p)
  /\ LET r == parse(World, p, text, style)
     IN /\ commodities_size(r.w, p) <= max
        /\ Commit(r.w)
        /\ amounts' = [amounts EXCEPT ![i] = r.amt]
        /\ last' = Call("parse", p, text.sym, text.details, r.amt.commodity_, "")
  /\ UNCHANGED <<default_pool, statics>>

(***************************************************************************)
(* The pool alone: one pool, the default pool, and every way of creating   *)
(* and finding commodities in it.                                          *)
(***************************************************************************)
NextPool ==
  \/ initialize
  \/ \E p \in PoolIds, sym \in Symbols : Create(p, sym, MaxCommodities)
  \/ \E p \in PoolIds, sym \in Symbols : Find(p, sym)
  \/ \E p \in PoolIds, sym \in Symbols : FindOrCreate(p, sym, MaxCommodities)
  \/ \E p \in PoolIds, sym \in Symbols, d \in Details :
       CreateDetails(p, sym, d, MaxCommodities)
  \/ \E p \in PoolIds, sym \in Symbols, d \in Details : FindDetails(p, sym, d)
  \/ \E p \in PoolIds, sym \in Symbols, d \in Details :
       FindOrCreateDetails(p, sym, d, MaxCommodities)
  \/ \E p \in PoolIds, text \in Texts, style \in ParseFlags :
       Parse(p, 1, text, style, MaxCommodities)

SpecPool == Init /\ [][NextPool]_vars

(***************************************************************************)
(* Commodities on their own: two pools, a commodity_t the program          *)
(* constructs itself around an existing base (its fields are public), the  *)
(* mutators called through an annotated commodity or through its referent, *)
(* and operator== between any two commodities.                             *)
(***************************************************************************)
CommoditySymbols == {"A", "B1"}

CommodityDetails ==
  {annotation_t(Price(20, 0), None, None),
   annotation_t(Price(20, 0), None, Some("lot"))}

FlagArgs == {COMMODITY_STYLE_SUFFIXED, COMMODITY_STYLE_NOMARKET}

Scales == {None, Some(amount_t(Some(bigint_t(60, 0)), NULL))}

loose == {c \in 1..Len(heap) : \A p \in PoolIds : c \notin pools[p].commodities}

\* The annotated commodities and their referents.
lots == {c \in 1..Len(heap) :
           commodity_live(c) /\
           (heap[c].annotated \/ \E x \in 1..Len(heap) : heap[x].annotated /\ heap[x].ptr = c)}

\* commodity_t(parent, base), then ident, qualified_symbol and mapping_key_
\* stored by the caller.
Construct(p, b, id, qs, mk) ==
  /\ pool_live(p)
  /\ b \in 1..Len(bases)
  /\ Cardinality(loose) < MaxLoose
  /\ heap' = Append(heap, [commodity_t(p, b) EXCEPT
                             !.ident = id, !.qualified_symbol = qs,
                             !.mapping_key_ = mk])
  /\ last' = Op("commodity_t", Len(heap) + 1, 0, "")
  /\ UNCHANGED <<default_pool, pools, bases, amounts, statics>>

Mutate(op, c, w) ==
  /\ Commit(w)
  /\ last' = Op(op, c, 0, "")
  /\ UNCHANGED <<default_pool, amounts, statics>>

SetName(c, arg) == Mutate("set_name", c, set_name(World, c, arg))
SetNote(c, arg) == Mutate("set_note", c, set_note(World, c, arg))
SetPrecision(c, arg) == Mutate("set_precision", c, set_precision(World, c, arg))
SetFlags(c, arg) == Mutate("set_flags", c, set_flags(World, c, arg))
AddFlags(c, arg) == Mutate("add_flags", c, add_flags(World, c, arg))
DropFlags(c, arg) == Mutate("drop_flags", c, drop_flags(World, c, arg))
SetSmaller(c, arg) == Mutate("set_smaller", c, set_smaller(World, c, arg))
SetLarger(c, arg) == Mutate("set_larger", c, set_larger(World, c, arg))

\* x == y between two commodities
CommodityEquals(x, y) ==
  /\ commodity_eq_defined(x, y)
  /\ last' = Op("commodity_eq", x, y, Bool(commodity_eq(x, y)))
  /\ UNCHANGED <<default_pool, pools, heap, bases, amounts, statics>>

IdentArgs == {0, 7}

NextCommodity ==
  \/ initialize
  \/ new_pool
  \/ \E p \in PoolIds, sym \in CommoditySymbols :
       FindOrCreate(p, sym, MaxCommodities) /\ Len(heap') <= MaxHeap
  \/ \E p \in PoolIds, sym \in CommoditySymbols, d \in CommodityDetails :
       FindOrCreateDetails(p, sym, d, MaxCommodities) /\ Len(heap') <= MaxHeap
  \/ \E p \in PoolIds, b \in 1..Len(bases), id \in IdentArgs,
        qs \in Names, mk \in Names :
       Construct(p, b, id, qs, mk) /\ Len(heap') <= MaxHeap
  \/ \E x \in 1..Len(heap), y \in 1..Len(heap) : CommodityEquals(x, y)

SpecCommodity == Init /\ [][NextCommodity]_vars

(***************************************************************************)
(* The shared base: one pool, an annotated commodity and its referent, and *)
(* every mutator called through either of them.                            *)
(***************************************************************************)
NextBase ==
  \/ initialize
  \/ \E p \in PoolIds, sym \in CommoditySymbols :
       FindOrCreate(p, sym, MaxLotCommodities)
  \/ \E p \in PoolIds, sym \in CommoditySymbols, d \in CommodityDetails :
       FindOrCreateDetails(p, sym, d, MaxLotCommodities)
  \/ \E c \in lots, arg \in Names : SetName(c, arg)
  \/ \E c \in lots, arg \in Names : SetNote(c, arg)
  \/ \E c \in lots, arg \in 0..MaxPrecision : SetPrecision(c, arg)
  \/ \E c \in lots, arg \in FlagArgs : SetFlags(c, arg)
  \/ \E c \in lots, arg \in FlagArgs : AddFlags(c, arg)
  \/ \E c \in lots, arg \in FlagArgs : DropFlags(c, arg)
  \/ \E c \in lots, arg \in Scales : SetSmaller(c, arg)
  \/ \E c \in lots, arg \in Scales : SetLarger(c, arg)

SpecBase == Init /\ [][NextBase]_vars

(***************************************************************************)
(* Quotes and prices: subscribers are connected to the default pool's      *)
(* get_quote, prices are added to and removed from the history of a        *)
(* commodity, and the commodity is valued.                                 *)
(***************************************************************************)
QuoteSymbols == {"A"}

Slots == {Slot("A", 5), Slot("*", 7), Slot("B1", 9)}

Moments == 1..MaxMoment

OptionalMoments == {None} \cup {Some(m) : m \in Moments}

Prices == {amount_t(Some(bigint_t(3, 0)), NULL), amount_t(Some(bigint_t(4, 0)), NULL)}

\* The commodities prices are recorded for: the live ones with a symbol.
priced == {c \in 1..Len(heap) : commodity_live(c) /\ base_symbol(World, c) /= ""}

QuoteOp(w, call) ==
  /\ Commit(w)
  /\ last' = call
  /\ UNCHANGED <<default_pool, amounts, statics>>

Connect(p, s) ==
  /\ pool_live(p)
  /\ Len(pools[p].get_quote) < MaxSubscribers
  /\ QuoteOp(connect(World, p, s), Call("connect", p, s.sym, NoDetails, NULL, ""))

GetQuote(c, moment) ==
  /\ commodity_live(c)
  /\ pool_live(heap[c].parent_)
  /\ QuoteOp(World,
             [Op("get_quote", c, 0, "") EXCEPT
                !.quote = get_quote(World, heap[c].parent_, c, None, moment, None),
                !.at = moment])

AddPrice(c, date, price) ==
  QuoteOp(add_price(World, c, date, price),
          [Op("add_price", c, date, "") EXCEPT !.quote = Some(price)])

RemovePrice(c, date) ==
  LET r == remove_price(World, c, date)
  IN QuoteOp(r.w, Op("remove_price", c, date, Bool(r.ret)))

Value(c, at, now) ==
  LET r == value(World, c, at, now)
  IN QuoteOp(r.w, [Op("value", c, now, "") EXCEPT
                     !.quote = r.ret, !.lookups = r.lookups, !.at = at])

NextQuote ==
  \/ initialize
  \/ \E p \in PoolIds, sym \in QuoteSymbols : FindOrCreate(p, sym, MaxCommodities)
  \/ \E p \in PoolIds, s \in Slots : Connect(p, s)
  \/ \E c \in 1..Len(heap), moment \in OptionalMoments : GetQuote(c, moment)
  \/ \E c \in priced, date \in Moments, price \in Prices : AddPrice(c, date, price)
  \/ \E c \in priced, date \in Moments : RemovePrice(c, date)
  \/ \E c \in priced, at \in OptionalMoments, now \in Moments : Value(c, at, now)

SpecQuote == Init /\ [][NextQuote]_vars

(***************************************************************************)
(* Parsing through the default pool: the entry points of amount_t that     *)
(* take no pool, called before initialize, between initialize and          *)
(* shutdown, and after shutdown.                                           *)
(***************************************************************************)
Dollars == Text(<<"1", "0", "0", ".", "0", "0", "5">>, "$", FALSE, FALSE, NoDetails)

ParseTexts ==
  {Dollars,
   Text(<<"-", "2", ".", "5">>, "A", TRUE, TRUE, NoDetails),
   Text(<<"7">>, "", FALSE, FALSE, NoDetails)}

Hour == Text(<<"1">>, "h", TRUE, FALSE, NoDetails)

Minutes == Text(<<"6", "0">>, "m", TRUE, FALSE, NoDetails)

DisplayPrecisions == {2}

\* The amounts write can be called on: those whose commodity is not dangling.
writable == {j \in AmountIds : amounts[j].commodity_ = NULL \/ commodity_live(amounts[j].commodity_)}

EntryOp(op, i, j, r, text, style) ==
  /\ Len(r.w.heap) <= MaxHeap
  /\ Commit(r.w)
  /\ amounts' = [amounts EXCEPT ![i] = r.amt]
  /\ last' = [Op(op, i, j, "") EXCEPT !.err = r.err, !.text = text, !.style = style]
  /\ UNCHANGED <<default_pool, statics>>

\* amounts[i].parse(in, flags)
ParseStream(i, text, style) ==
  EntryOp("parse_stream", i, 0, parse_default(World, default_pool, amounts[i], text, style),
          text, style)

\* amounts[i].parse(str, flags)
ParseString(i, text, style) ==
  EntryOp("parse_string", i, 0, parse_default(World, default_pool, amounts[i], text, style),
          text, style)

\* amount_t::parse_conversion(larger_str, smaller_str)
ParseConversion(larger_text, smaller_text) ==
  EntryOp("parse_conversion", 1, 0,
          parse_conversion_default(World, default_pool, amounts[1], larger_text, smaller_text),
          larger_text, AMOUNT_PARSE_NO_REDUCE)

\* amounts[i].read(in), the stream holding what amounts[j].write(out) wrote
ReadStream(i, j) ==
  /\ j \in writable
  /\ EntryOp("read_stream", i, j,
             read_default(World, default_pool, amounts[i], write(World, amounts[j])),
             NoText, 0)

\* amounts[i].read(data), the buffer holding what amounts[j].write(out) wrote
ReadBuffer(i, j) ==
  /\ j \in writable
  /\ EntryOp("read_buffer", i, j,
             read_default(World, default_pool, amounts[i], write(World, amounts[j])),
             NoText, 0)

\* amounts[i] = amount_t::exact(value)
Exact(i, text) ==
  EntryOp("exact", i, 0, exact(World, default_pool, text), text, AMOUNT_PARSE_NO_MIGRATE)

NextParse ==
  \/ initialize
  \/ shutdown
  \/ new_pool
  \/ \E text \in ParseTexts, style \in ParseFlags : ParseStream(1, text, style)
  \/ \E text \in ParseTexts, style \in ParseFlags : ParseString(1, text, style)
  \/ ParseConversion(Hour, Minutes)
  \/ ReadStream(2, 1)
  \/ ReadBuffer(2, 1)
  \/ \E text \in ParseTexts : Exact(2, text)
  \/ \E c \in priced, arg \in DisplayPrecisions : SetPrecision(c, arg)

SpecParse == Init /\ [][NextParse]_vars

(***************************************************************************)
(* Amounts: construction, copy, assignment, the commodity setters,         *)
(* number() and operator==, with commodities of the default pool and of a  *)
(* pool of the program's own, before initialize and after shutdown too.    *)
(***************************************************************************)
\* amount_t::_copy: the quantity is shared and the commodity pointer copied.
_copy(amt) == amount_t(amt.quantity, amt.commodity_)

\* amount_t::amount_t(const amount_t&)
copy_amount(amt) ==
  IF amt.quantity /= None THEN _copy(amt) ELSE amount_t(None, NULL)

\* amount_t::operator=
assign(amt) == amount_t(amt.quantity, amt.commodity_)

\* amount_t::set_commodity and amount_t::clear_commodity
set_commodity(a, comm) == [a EXCEPT !.commodity_ = comm]
clear_commodity(a) == [a EXCEPT !.commodity_ = NULL]

\* amount_t::number when has_commodity() answers has
number(a, has) == IF ~has THEN copy_amount(a) ELSE clear_commodity(copy_amount(a))

\* An operation on amounts[i]; only copies and comparisons are recorded
\* with their operands.
AmountOp(i, a, call) ==
  /\ amounts' = [amounts EXCEPT ![i] = a]
  /\ last' = call
  /\ UNCHANGED <<default_pool, pools, heap, bases, statics>>

Unrecorded == Op("amount", 0, 0, "")

\* amount_t()
Default(i) == AmountOp(i, null_amount, Unrecorded)

\* amount_t(long) and amount_t(double): a quantity and no commodity
FromNumber(i, q) == AmountOp(i, amount_t(q, NULL), Unrecorded)

\* amounts[i] is constructed as a copy of amounts[j]
Copy(i, j) == AmountOp(i, copy_amount(amounts[j]), Op("copy", i, j, ""))

\* amounts[i] = amounts[j]
Assign(i, j) == AmountOp(i, assign(amounts[j]), Unrecorded)

SetCommodity(i, c) ==
  /\ commodity_live(c)
  /\ AmountOp(i, set_commodity(amounts[i], c), Unrecorded)

ClearCommodity(i) == AmountOp(i, clear_commodity(amounts[i]), Unrecorded)

\* amounts[i] = amounts[j].number(); has_commodity() on a dangling commodity
\* may answer either way.
Number(i, j) ==
  \E has \in BOOLEAN :
    /\ has_commodity_defined(amounts[j]) => has = has_commodity(amounts[j])
    /\ AmountOp(i, number(amounts[j], has), Unrecorded)

\* amounts[i] == amounts[j], where both commodity() calls are defined
Equals(i, j) ==
  /\ amount_eq_defined(amounts[i], amounts[j])
  /\ AmountOp(i, amounts[i],
              Op("amount_eq", i, j, amount_eq_value(amounts[i], amounts[j])))

AmountSymbols == {"A"}
AmountQuantities == {Some(bigint_t(1, 0)), Some(bigint_t(10, 1)), Some(bigint_t(2, 0))}

Next ==
  \/ initialize
  \/ shutdown
  \/ new_pool
  \/ \E p \in PoolIds, sym \in AmountSymbols :
       FindOrCreate(p, sym, MaxCommodities) /\ Len(heap') <= MaxHeap
  \/ \E p \in PoolIds, sym \in AmountSymbols, d \in CommodityDetails :
       FindOrCreateDetails(p, sym, d, MaxCommodities) /\ Len(heap') <= MaxHeap
  \/ \E i \in AmountIds : Default(i)
  \/ \E i \in AmountIds, q \in AmountQuantities : FromNumber(i, q)
  \/ \E i, j \in AmountIds : i /= j /\ Copy(i, j)
  \/ \E i, j \in AmountIds : Assign(i, j)
  \/ \E i \in AmountIds, c \in 1..Len(heap) : SetCommodity(i, c)
  \/ \E i \in AmountIds : ClearCommodity(i)
  \/ \E i, j \in AmountIds : Number(i, j)
  \/ \E i, j \in AmountIds : Equals(i, j)

Spec == Init /\ [][Next]_vars

(***************************************************************************)
(* The claims about amounts.                                               *)
(***************************************************************************)
\* The commodities of a and b differ in kind or in identity: one amount is
\* commoditized and the other is not, one commodity is annotated and the
\* other plain, two plain commodities have different bases, or two annotated
\* commodities have different referents or different annotations.
commodities_differ(a, b) ==
  \/ has_commodity(a) /= has_commodity(b)
  \/ /\ has_commodity(a)
     /\ has_commodity(b)
     /\ LET x == heap[a.commodity_]
            y == heap[b.commodity_]
        IN  \/ x.annotated /= y.annotated
            \/ ~x.annotated /\ x.base /= y.base
            \/ /\ x.annotated
               /\ \/ heap[x.ptr].base /= heap[y.ptr].base
                  \/ ~annotation_eq(x.details, y.details)

\* C1: a == b on amounts whose commodities differ (different plain
\* commodities, plain against annotated, commoditized against commodity-less)
\* is false and never an error; on amounts of equal commodities it is the
\* comparison of the quantities.
C1_EqualsNeverRaises ==
  /\ \A i, j \in AmountIds :
       amount_eq_defined(amounts[i], amounts[j]) =>
         amount_eq_value(amounts[i], amounts[j]) =
           IF commodities_differ(amounts[i], amounts[j])
             THEN "false"
             ELSE Bool(compare(amounts[i], amounts[j]) = 0)
  /\ last.op = "amount_eq" =>
       /\ last.value \in {"true", "false"}
       /\ commodities_differ(amounts[last.x], amounts[last.y]) => last.value = "false"

\* a == b has answered false for a plain commodity against an annotated one
\* with the same quantity on both sides.
C1_Witness ==
  /\ last.op = "amount_eq"
  /\ last.value = "false"
  /\ has_commodity(amounts[last.x])
  /\ has_commodity(amounts[last.y])
  /\ ~heap[amounts[last.x].commodity_].annotated
  /\ heap[amounts[last.y].commodity_].annotated
  /\ amounts[last.x].quantity /= None
  /\ amounts[last.x].quantity = amounts[last.y].quantity

\* C2: an amount without a quantity has no commodity, and is_null() is true
\* exactly when the quantity is absent.
C2_NoQuantityNoCommodity ==
  \A i \in AmountIds :
    has_commodity_defined(amounts[i]) =>
      /\ amounts[i].quantity = None => ~has_commodity(amounts[i])
      /\ is_null(amounts[i]) <=> amounts[i].quantity = None

\* C3: after amounts[x] is constructed as a copy of amounts[y], both have a
\* quantity or neither has, both have the same commodity, and they compare
\* equal.
C3_CopyEqualsSource ==
  /\ last.op = "copy"
  /\ amount_eq_defined(amounts[last.x], amounts[last.y])
  => /\ (amounts[last.x].quantity = None) <=> (amounts[last.y].quantity = None)
     /\ commodity(amounts[last.x]) = commodity(amounts[last.y])
     /\ amount_eq_value(amounts[last.x], amounts[last.y]) = "true"

\* The same for a source that has a quantity or has no commodity.
CopyOfValidSource ==
  /\ last.op = "copy"
  /\ amount_eq_defined(amounts[last.x], amounts[last.y])
  /\ amounts[last.y].quantity = None => ~has_commodity(amounts[last.y])
  => /\ amounts[last.x].quantity = amounts[last.y].quantity
     /\ commodity(amounts[last.x]) = commodity(amounts[last.y])
     /\ amount_eq_value(amounts[last.x], amounts[last.y]) = "true"

(***************************************************************************)
(* The claims about commodities.                                           *)
(***************************************************************************)
live_commodities == {c \in 1..Len(heap) : commodity_live(c)}

\* C4: two commodities that are not annotated compare equal exactly when
\* they point to the same commodity_base_t, whatever their ident,
\* qualified_symbol and mapping_key are; and that is what x == y returned.
C4_PlainEqualIffSameBase ==
  /\ \A x, y \in live_commodities :
       ~heap[x].annotated /\ ~heap[y].annotated =>
         (commodity_eq(x, y) <=> heap[x].base = heap[y].base)
  /\ (last.op = "commodity_eq" /\ ~heap[last.x].annotated /\ ~heap[last.y].annotated) =>
       last.value = Bool(heap[last.x].base = heap[last.y].base)

\* Two commodities of one base that differ in ident, qualified_symbol and
\* mapping_key have compared equal, while two commodities of different bases
\* that agree in all three exist.
C4_Witness ==
  /\ last.op = "commodity_eq"
  /\ last.value = "true"
  /\ ~heap[last.x].annotated /\ ~heap[last.y].annotated
  /\ heap[last.x].base = heap[last.y].base
  /\ heap[last.x].ident /= heap[last.y].ident
  /\ heap[last.x].qualified_symbol /= heap[last.y].qualified_symbol
  /\ mapping_key(World, last.x) /= mapping_key(World, last.y)
  /\ \E u, v \in live_commodities :
       /\ ~heap[u].annotated /\ ~heap[v].annotated
       /\ heap[u].base /= heap[v].base
       /\ heap[u].ident = heap[v].ident
       /\ heap[u].qualified_symbol = heap[v].qualified_symbol
       /\ mapping_key(World, u) = mapping_key(World, v)
       /\ ~commodity_eq(u, v)

\* C5: an annotated commodity and one that is not annotated are unequal
\* whichever is the left operand, also when they share a base; two
\* annotated commodities are equal exactly when their referents are equal
\* and their annotations are equal.
C5_AnnotatedVersusPlain ==
  \A x, y \in live_commodities :
    (commodity_eq_defined(x, y) /\ commodity_eq_defined(y, x)) =>
      /\ (heap[x].annotated /\ ~heap[y].annotated) =>
           ~commodity_eq(x, y) /\ ~commodity_eq(y, x)
      /\ (heap[x].annotated /\ heap[y].annotated) =>
           (commodity_eq(x, y) <=>
              /\ heap[heap[x].ptr].base = heap[heap[y].ptr].base
              /\ annotation_eq(heap[x].details, heap[y].details))
      /\ (last.op = "commodity_eq" /\ last.x = x /\ last.y = y) =>
           last.value = Bool(commodity_eq(x, y))

\* plain == annotated has been evaluated for two commodities of one base.
C5_Witness ==
  /\ last.op = "commodity_eq"
  /\ ~heap[last.x].annotated
  /\ heap[last.y].annotated
  /\ heap[last.x].base = heap[last.y].base
  /\ last.value = "false"

\* C6: an annotated commodity and its referent report the same precision,
\* flags, name, note, smaller and larger after any sequence of the mutators
\* called through either of them.
C6_AnnotatedSharesBase ==
  \A x \in live_commodities : heap[x].annotated =>
    LET r == heap[x].ptr
    IN /\ precision(World, x) = precision(World, r)
       /\ flags(World, x) = flags(World, r)
       /\ name(World, x) = name(World, r)
       /\ note(World, x) = note(World, r)
       /\ smaller(World, x) = smaller(World, r)
       /\ larger(World, x) = larger(World, r)

\* Every field has been changed, the last change made through the annotated
\* commodity.
C6_Witness ==
  /\ last.op = "drop_flags"
  /\ last.x \in live_commodities
  /\ heap[last.x].annotated
  /\ LET r == heap[last.x].ptr
     IN /\ precision(World, r) = 1
        /\ flags(World, r) = COMMODITY_STYLE_NOMARKET
        /\ name(World, r) /= None
        /\ note(World, r) /= None
        /\ smaller(World, r) /= None
        /\ larger(World, r) /= None

(***************************************************************************)
(* The claims about the pool.                                              *)
(***************************************************************************)
WorldNext == [heap |-> heap', bases |-> bases', pools |-> pools']

PoolChanged == heap' /= heap \/ bases' /= bases \/ pools' /= pools

annotated_of(p) == {x \in pools[p].commodities : heap[x].annotated}

\* C7: in every reachable pool no two commodities have the same ident, no
\* two have the same mapping key, the idents in use are exactly 0..n-1, and
\* idents follow the order of creation, so that each new commodity received
\* the next ident.
C7_IndicesUniqueDense ==
  \A p \in PoolIds : pool_live(p) =>
    LET cs == pools[p].commodities
    IN /\ \A x, y \in cs : x /= y =>
            /\ heap[x].ident /= heap[y].ident
            /\ mapping_key(World, x) /= mapping_key(World, y)
       /\ {heap[x].ident : x \in cs} = 0..(Cardinality(cs) - 1)
       /\ \A x, y \in cs : x < y => heap[x].ident < heap[y].ident

C7_Witness ==
  /\ last.op = "parse"
  /\ last.ret /= NULL
  /\ Cardinality(pools[last.pool].commodities) >= 4
  /\ annotated_of(last.pool) /= {}

\* C8: a find_or_create(symbol) call on an unknown symbol adds exactly the
\* commodity it returns; on a known symbol it returns the commodity find
\* gives and changes nothing in the pool; find(symbol) afterwards returns
\* the returned handle, and keeps returning it whatever is called later.
C8_FindOrCreateIdempotent ==
  [][/\ last'.op = "find_or_create" =>
          LET p == last'.pool
              before == find(World, p, last'.sym)
          IN /\ last'.ret /= NULL
             /\ find(WorldNext, p, last'.sym) = last'.ret
             /\ before /= NULL => last'.ret = before /\ ~PoolChanged
             /\ before = NULL =>
                  /\ last'.ret \notin pools[p].commodities
                  /\ pools'[p].commodities = pools[p].commodities \cup {last'.ret}
     /\ \A p \in PoolIds, sym \in Symbols :
          pool_live(p) /\ find(World, p, sym) /= NULL =>
            find(WorldNext, p, sym) = find(World, p, sym)
    ]_vars

C8_Witness ==
  /\ last.op = "find_or_create"
  /\ last.sym = "B1"
  /\ last.found /= NULL
  /\ last.ret = last.found
  /\ commodities_size(World, last.pool) = last.size

\* C9: create(symbol) on a symbol the pool already holds fails with
\* DuplicateSymbol and returns no commodity; the pool is unchanged (no
\* commodity inserted, no ident consumed) and the symbol still finds the
\* commodity it found before.
C9_CreateDuplicateFails ==
  [][last'.op = "create" /\ find(World, last'.pool, last'.sym) /= NULL =>
       /\ last'.err = "DuplicateSymbol"
       /\ last'.ret = NULL
       /\ ~PoolChanged
       /\ find(WorldNext, last'.pool, last'.sym) = find(World, last'.pool, last'.sym)
    ]_vars

C9_Witness ==
  /\ last.op = "create"
  /\ last.sym = "A"
  /\ last.found /= NULL
  /\ last.err = "DuplicateSymbol"

\* C10: among the annotated commodities of one symbol, two are the same
\* handle exactly when their annotations are equal, and different handles
\* have different mapping keys; find_or_create(symbol, annotation) returns
\* an annotated commodity of the pool whose annotation equals the one asked
\* for and whose referent is the plain commodity find(symbol) gives.
C10_AnnotatedInterned ==
  \A p \in PoolIds : pool_live(p) =>
    /\ \A x, y \in annotated_of(p) : heap[x].ptr = heap[y].ptr =>
         /\ annotation_eq(heap[x].details, heap[y].details) <=> x = y
         /\ x /= y => mapping_key(World, x) /= mapping_key(World, y)
    /\ (last.op = "find_or_create_details" /\ last.pool = p
          /\ annotation_bool(last.details)) =>
         /\ last.ret \in annotated_of(p)
         /\ annotation_eq(heap[last.ret].details, last.details)
         /\ find(World, p, last.sym) /= NULL
         /\ heap[last.ret].ptr = find(World, p, last.sym)
         /\ ~heap[heap[last.ret].ptr].annotated

C10_Witness ==
  /\ last.op = "find_or_create_details"
  /\ last.ret /= NULL
  /\ heap[last.ret].details /= last.details
  /\ Cardinality({x \in annotated_of(last.pool) : heap[x].ptr = heap[last.ret].ptr}) >= 2

(***************************************************************************)
(* The claims about quotes and the price history.                          *)
(***************************************************************************)
\* What the subscribers of the pool of c answer for c, in the order of their
\* connection.
answers(c, moment) ==
  LET subs == pools[heap[c].parent_].get_quote
  IN [i \in 1..Len(subs) |-> slot_call(World, subs[i], c, None, moment, None)]

\* C11: a get_quote lookup returns the answer of the first subscriber, in
\* the order of registration, whose answer is present, and an absent result
\* when there is no subscriber or no subscriber answers.
C11_FirstPresentQuote ==
  last.op = "get_quote" =>
    LET a == answers(last.x, last.at)
        present == {i \in DOMAIN a : a[i] /= None}
    IN IF present = {} THEN last.quote = None
       ELSE \E i \in present :
              /\ \A j \in present : i <= j
              /\ last.quote = a[i]

\* Two subscribers have answered a lookup with different prices.
C11_Witness ==
  /\ last.op = "get_quote"
  /\ LET a == answers(last.x, last.at)
     IN /\ Len(a) = 2
        /\ a[1] /= None
        /\ a[2] /= None
        /\ a[1] /= a[2]
        /\ last.quote = a[1]

prices_of(bs, b) == IF bs[b].history = None THEN <<>> ELSE bs[b].history[1].prices

\* The prices the history holds for a date.
prices_on(prices, date) == {prices[i].price : i \in {j \in 1..Len(prices) : prices[j].date = date}}

ParseOps == {"parse_stream", "parse_string", "exact"}

no_migrate(call) == BitAnd(call.style, AMOUNT_PARSE_NO_MIGRATE) /= 0

\* Parsing with AMOUNT_PARSE_NO_MIGRATE leaves the precision and the flags of
\* every commodity as they were, and a commodity it creates has the
\* precision and the flags of a new commodity.
NoMigrateFrame ==
  last'.op \in ParseOps /\ no_migrate(last') =>
    \A b \in 1..Len(bases') :
      /\ bases'[b].precision = IF b <= Len(bases) THEN bases[b].precision ELSE 0
      /\ bases'[b].flags = IF b <= Len(bases) THEN bases[b].flags
                           ELSE COMMODITY_STYLE_DEFAULTS

\* A parse without AMOUNT_PARSE_NO_MIGRATE widens the precision of the
\* commodity to the fractional digits of the text.
NormalParseWidens ==
  last'.op \in ParseOps /\ ~no_migrate(last') /\ last'.err = "" =>
    LET before == find(World, default_pool, last'.text.sym)
        after == find(WorldNext, default_pool, last'.text.sym)
    IN precision(WorldNext, after) =
         Max(IF before = NULL THEN 0 ELSE precision(World, before),
             fraction_digits(last'.text.number))

ExactPrintsAllDigits ==
  last'.op = "exact" /\ last'.err = "" /\ last'.text = Dollars =>
    to_string(WorldNext, amounts'[last'.x]) = "$100.005"

\* The commodity of amounts[i] can be looked at and amounts[i] has a quantity.
printable(i) ==
  /\ amounts[i].quantity /= None
  /\ amounts[i].commodity_ /= NULL
  /\ commodity_live(amounts[i].commodity_)

EntryPoints ==
  {"parse_stream", "parse_string", "parse_conversion", "read_stream", "read_buffer"}

\* C15: parse(stream), parse(string), parse_conversion(larger, smaller),
\* read(stream) and read(buffer) work only while default_pool is set, which
\* is from initialize() to shutdown(): called while it is unset the
\* assertion fails and no pool, commodity or amount is touched; called while
\* it is set they work on the default pool and on no other.
C15_DefaultPoolRequired ==
  [][/\ default_pool' /= default_pool =>
          \/ last'.op = "initialize" /\ default_pool = NULL /\ default_pool' /= NULL
          \/ last'.op = "shutdown" /\ default_pool /= NULL /\ default_pool' = NULL
     /\ default_pool /= NULL => pool_live(default_pool)
     /\ last'.op \in EntryPoints =>
          IF default_pool = NULL
            THEN /\ last'.err = "assert"
                 /\ ~PoolChanged
                 /\ amounts' = amounts
            ELSE /\ last'.err /= "assert"
                 /\ \A p \in PoolIds \ {default_pool} : pools'[p] = pools[p]
                 /\ \A c \in (Len(heap) + 1)..Len(heap') : heap'[c].parent_ = default_pool
                 /\ amounts'[last'.x] /= amounts[last'.x] =>
                      \/ amounts'[last'.x].commodity_ = NULL
                      \/ heap'[amounts'[last'.x].commodity_].parent_ = default_pool
    ]_vars

\* read(buffer) has been called after shutdown, while another pool is alive.
C15_Witness ==
  /\ last.op = "read_buffer"
  /\ last.err = "assert"
  /\ default_pool = NULL
  /\ \E p \in PoolIds : pools[p].state = "dead"
  /\ \E p \in PoolIds : pool_live(p)

(***************************************************************************)
(* Addition and subtraction.  An operand without a quantity is the         *)
(* additive identity.  The commodities are compared after the parts of     *)
(* their annotations that keep_price, keep_date and keep_tag do not keep   *)
(* have been stripped; an operand of the null commodity adopts the         *)
(* commodity of the other.                                                 *)
(***************************************************************************)
MaxSum == 20

\* A faulty variant of strip_details: every part of the annotation is kept.
strip_nothing(d, kp, kd, kt) == d

\* The parts of the annotation d that are kept.
strip_details(d, kp, kd, kt) ==
  annotation_t(IF kp THEN d.price ELSE None,
               IF kd THEN d.date ELSE None,
               IF kt THEN d.tag ELSE None)

\* The commodity c without the parts of its annotation that are not kept:
\* the plain commodity when nothing remains.
strip_annotations(w, c, kp, kd, kt) ==
  IF c = NULL \/ ~w.heap[c].annotated THEN Result(w, c, "")
  ELSE LET d == strip_details(w.heap[c].details, kp, kd, kt)
       IN IF d = w.heap[c].details THEN Result(w, c, "")
          ELSE IF annotation_bool(d)
            THEN find_or_create_comm(w, w.heap[c].parent_, w.heap[c].ptr, d)
          ELSE Result(w, w.heap[c].ptr, "")

\* The commodity pointer c stands for no commodity.
bare(w, c) == c = NULL \/ c = w.pools[w.heap[c].parent_].null_commodity

\* amount_t::operator+= (sgn = 1) and amount_t::operator-= (sgn = -1) on a
\* with the operand b
add(w, a, b, sgn, kp, kd, kt) ==
  IF b.quantity = None THEN Outcome(w, a, "")
  ELSE IF a.quantity = None THEN Outcome(w, _copy(b), "")
  ELSE LET sa == strip_annotations(w, a.commodity_, kp, kd, kt)
           sb == strip_annotations(sa.w, b.commodity_, kp, kd, kt)
           prec == Max(a.quantity[1].prec, b.quantity[1].prec)
           sum == scaled(a.quantity, prec) + sgn * scaled(b.quantity, prec)
       IN IF ~bare(sb.w, sa.ret) /\ ~bare(sb.w, sb.ret) /\ sa.ret /= sb.ret
            THEN Outcome(w, a, "IncompatibleCommodities")
            ELSE Outcome(sb.w,
                         amount_t(Some(bigint_t(sum, prec)),
                                  IF bare(sb.w, sa.ret) THEN sb.ret ELSE sa.ret),
                         "")

Shares == Text(<<"1", "0">>, "AAPL", TRUE, TRUE, NoDetails)

Lot == Text(<<"1", "0">>, "AAPL", TRUE, TRUE, annotation_t(Price(20, 0), None, None))

ArithTexts ==
  {Shares, Lot,
   Text(<<"1", "0">>, "AAPL", TRUE, TRUE, annotation_t(None, Some("2007/04/18"), None)),
   Text(<<"5">>, "", FALSE, FALSE, NoDetails)}

\* amounts[i] += amounts[j] and amounts[i] -= amounts[j]
Arith(op, i, j, sgn) ==
  /\ LET r == add(World, amounts[i], amounts[j], sgn, keep_price, keep_date, keep_tag)
     IN /\ r.amt.quantity /= None => Abs(r.amt.quantity[1].val) <= MaxSum
        /\ Len(r.w.heap) <= MaxHeap
        /\ Commit(r.w)
        /\ amounts' = [amounts EXCEPT ![i] = r.amt]
        /\ last' = [Op(op, i, j, "") EXCEPT !.err = r.err]
  /\ UNCHANGED <<default_pool, statics>>

\* The commodities of amounts[i] and amounts[j] can be looked at.
operands_live(i, j) ==
  \A n \in {i, j} : amounts[n].commodity_ = NULL \/ commodity_live(amounts[n].commodity_)

Add(i, j) ==
  /\ operands_live(i, j)
  /\ Arith("add", i, j, 1)

Subtract(i, j) ==
  /\ operands_live(i, j)
  /\ Arith("subtract", i, j, -1)

\* amount_t::keep_price = b, and the same for keep_date and keep_tag
SetKeep(kp, kd, kt) ==
  /\ <<kp, kd, kt>> /= statics
  /\ Cardinality({n \in 1..3 : <<kp, kd, kt>>[n] /= statics[n]}) = 1
  /\ keep_price' = kp
  /\ keep_date' = kd
  /\ keep_tag' = kt
  /\ last' = Op("keep", 0, 0, "")
  /\ UNCHANGED <<default_pool, pools, heap, bases, amounts>>

NextArith ==
  \/ initialize
  \/ \E i \in AmountIds, text \in ArithTexts : ParseString(i, text, 0)
  \/ \E kp, kd, kt \in BOOLEAN : SetKeep(kp, kd, kt)
  \/ \E i, j \in AmountIds : Add(i, j)
  \/ \E i, j \in AmountIds : Subtract(i, j)

SpecArith == Init /\ [][NextArith]_vars

(***************************************************************************)
(* The claim about addition and subtraction.                               *)
(***************************************************************************)
\* The plain commodity c is a variant of.
referent(w, c) == IF c /= NULL /\ w.heap[c].annotated THEN w.heap[c].ptr ELSE c

\* The parts of the annotation of c that the switches keep.
kept(w, c) ==
  IF c = NULL \/ ~w.heap[c].annotated THEN NoDetails
  ELSE annotation_t(IF keep_price THEN w.heap[c].details.price ELSE None,
                    IF keep_date THEN w.heap[c].details.date ELSE None,
                    IF keep_tag THEN w.heap[c].details.tag ELSE None)

ArithOperands == last'.op \in {"add", "subtract"}
                   /\ amounts[last'.x].quantity /= None
                   /\ amounts[last'.y].quantity /= None

\* 10 AAPL + 10 AAPL {$20} is 20 AAPL when keep_price is false and fails
\* when it is true.
SharesPlusLot ==
  (/\ last'.op = "add"
   /\ amounts[last'.x].quantity = Some(bigint_t(10, 0))
   /\ amounts[last'.y].quantity = Some(bigint_t(10, 0))
   /\ amounts[last'.y].commodity_ /= NULL
   /\ heap[amounts[last'.y].commodity_].annotated
   /\ heap[amounts[last'.y].commodity_].details = Lot.details
   /\ heap[amounts[last'.y].commodity_].ptr = amounts[last'.x].commodity_
   /\ symbol(World, amounts[last'.x].commodity_) = "AAPL") =>
     IF keep_price
       THEN last'.err = "IncompatibleCommodities" /\ amounts' = amounts
       ELSE /\ last'.err = ""
            /\ amounts'[last'.x].commodity_ = amounts[last'.x].commodity_
            /\ to_string(WorldNext, amounts'[last'.x]) = "20 AAPL"

\* What an addition or subtraction that does not fail leaves.
ArithResult ==
  ArithOperands /\ last'.err = "" =>
    LET a == amounts[last'.x]
        b == amounts[last'.y]
        prec == Max(a.quantity[1].prec, b.quantity[1].prec)
        r == amounts'[last'.x]
    IN /\ r.quantity /= None
       /\ r.quantity[1].prec = prec
       /\ r.quantity[1].val =
            scaled(a.quantity, prec)
              + (IF last'.op = "add" THEN 1 ELSE -1) * scaled(b.quantity, prec)
       /\ bare(World, a.commodity_) /\ bare(World, b.commodity_) =>
            bare(WorldNext, r.commodity_)
       /\ ~bare(World, a.commodity_) =>
            /\ referent(WorldNext, r.commodity_) = referent(World, a.commodity_)
            /\ kept(WorldNext, r.commodity_) = kept(World, a.commodity_)
       /\ bare(World, a.commodity_) /\ ~bare(World, b.commodity_) =>
            /\ referent(WorldNext, r.commodity_) = referent(World, b.commodity_)
            /\ kept(WorldNext, r.commodity_) = kept(World, b.commodity_)

MaxDividend == 200

RoundPrecisions == {0, 2}

method(self, ret) == [self |-> self, ret |-> ret]

\* amount_t::sign: the sign of the internal value
sign(a) ==
  IF a.quantity = None \/ a.quantity[1].val = 0 THEN 0
  ELSE IF a.quantity[1].val < 0 THEN -1 ELSE 1

\* amount_t::in_place_negate
in_place_negate(a) ==
  IF a.quantity = None THEN a
  ELSE [a EXCEPT !.quantity = Some([a.quantity[1] EXCEPT !.val = -a.quantity[1].val])]

\* A faulty variant of negate: the amount itself is negated.
negate_in_place(a) == method(in_place_negate(a), in_place_negate(a))

\* amount_t::negate
negate(a) ==
  LET temp == copy_amount(a)
  IN method(a, in_place_negate(temp))

\* amount_t::operator-
operator_minus(a) == negate(a)

\* amount_t::abs
abs(a) == IF sign(a) < 0 THEN negate(a) ELSE method(a, copy_amount(a))

\* amount_t::reduce
reduce(w, a) ==
  LET temp == copy_amount(a)
  IN method(a, IF temp.quantity = None THEN temp ELSE in_place_reduce(w, temp))

\* x / y: the dividend is extended by six digits past the larger precision
\* and the quotient truncated toward zero.
divide(x, y) ==
  LET prec == Max(x.prec, y.prec) + 6
      n == x.val * Pow10(prec - x.prec + y.prec)
      quotient == Abs(n) \div Abs(y.val)
  IN bigint_t(IF (n < 0) = (y.val < 0) THEN quotient ELSE -quotient, prec)

\* amount_t::in_place_unreduce: divide by the number of the commodity's
\* larger amount and take its commodity, while the result is not below one.
RECURSIVE in_place_unreduce(_, _)
in_place_unreduce(w, a) ==
  IF a.quantity = None \/ a.commodity_ = NULL
       \/ w.bases[w.heap[a.commodity_].base].larger = None
    THEN a
    ELSE LET l == w.bases[w.heap[a.commodity_].base].larger[1]
         IN IF l.quantity[1].val = 0 THEN a
            ELSE LET tmp == divide(a.quantity[1], l.quantity[1])
                 IN IF Abs(tmp.val) < Pow10(tmp.prec) THEN a
                    ELSE in_place_unreduce(w, amount_t(Some(tmp), l.commodity_))

\* amount_t::unreduce
unreduce(w, a) ==
  LET temp == copy_amount(a)
  IN method(a, in_place_unreduce(w, temp))

\* val at scale from, brought to the smaller scale to, rounded half to even
round_half_even(val, from, to) ==
  LET unit == Pow10(from - to)
      whole == Abs(val) \div unit
      rest == Abs(val) % unit
      up == 2 * rest > unit \/ (2 * rest = unit /\ whole % 2 = 1)
      rounded == IF up THEN whole + 1 ELSE whole
  IN IF val < 0 THEN -rounded ELSE rounded

\* amount_t::round(precision_t): the quantity is brought to the scale prec
round_to(a, prec) ==
  IF a.quantity = None THEN method(a, copy_amount(a))
  ELSE LET q == a.quantity[1]
       IN method(a,
            amount_t(Some(IF prec < q.prec
                            THEN bigint_t(round_half_even(q.val, q.prec, prec), prec)
                            ELSE bigint_t(q.val * Pow10(prec - q.prec), prec)),
                     a.commodity_))

\* A faulty variant of round: the commodity's precision is used whether or
\* not the amount has a commodity.
round_without_test(w, dp, a) ==
  round_to(a, precision(w, IF bare(w, a.commodity_) THEN w.pools[dp].null_commodity
                           ELSE a.commodity_))

\* amount_t::round()
round(w, dp, a) ==
  IF bare(w, a.commodity_) THEN method(a, copy_amount(a))
  ELSE round_to(a, precision(w, a.commodity_))

\* amount_t::zero: the value rounded to the display precision is zero
zero(w, a) ==
  IF ~bare(w, a.commodity_) /\ a.quantity /= None
       /\ a.quantity[1].prec > precision(w, a.commodity_)
    THEN sign(round_to(a, precision(w, a.commodity_)).ret) = 0
    ELSE sign(a) = 0

\* A faulty variant of nonzero: the internal value is tested.
nonzero_by_sign(w, a) == sign(a) /= 0

\* amount_t::nonzero
nonzero(w, a) == ~zero(w, a)

\* amount_t::operator bool
operator_bool(w, a) == nonzero(w, a)

\* amount_t::realzero
realzero(a) == sign(a) = 0

Cents == Text(<<"0", ".", "0", "0", "4">>, "$", FALSE, FALSE, NoDetails)

UnaryTexts ==
  {Cents,
   Hour,
   Text(<<"-", "9", "0">>, "m", TRUE, FALSE, NoDetails),
   Text(<<"-", "1", ".", "5">>, "", FALSE, FALSE, NoDetails),
   Text(<<"0", ".", "0">>, "$", FALSE, FALSE, NoDetails)}

ReduceFlags == {0, AMOUNT_PARSE_NO_REDUCE}

\* amounts[2] = amounts[1].op(...): the call leaves r.self in amounts[1]
Unary(op, r) ==
  /\ pool_live(default_pool)
  /\ amounts' = [amounts EXCEPT ![1] = r.self, ![2] = r.ret]
  /\ last' = Op(op, 1, 2, "")
  /\ UNCHANGED <<default_pool, pools, heap, bases, statics>>

Negate == Unary("negate", negate(amounts[1]))

Minus == Unary("minus", operator_minus(amounts[1]))

AbsValue == Unary("abs", abs(amounts[1]))

Reduce == Unary("reduce", reduce(World, amounts[1]))

Unreduce ==
  /\ amounts[1].quantity /= None =>
       /\ amounts[1].quantity[1].prec <= MaxPrecision
       /\ Abs(amounts[1].quantity[1].val) <= MaxDividend
  /\ Unary("unreduce", unreduce(World, amounts[1]))

NumberOf ==
  Unary("number", method(amounts[1], number(amounts[1], ~bare(World, amounts[1].commodity_))))

Round == Unary("round", round(World, default_pool, amounts[1]))

RoundTo(prec) ==
  /\ last' = [Op("round_to", 1, 2, "") EXCEPT !.size = prec]
  /\ LET r == round_to(amounts[1], prec)
     IN amounts' = [amounts EXCEPT ![1] = r.self, ![2] = r.ret]
  /\ pool_live(default_pool)
  /\ UNCHANGED <<default_pool, pools, heap, bases, statics>>

\* A truth test of amounts[i]
Truth(op, i, answer) ==
  /\ pool_live(default_pool)
  /\ last' = Op(op, i, 0, answer)
  /\ UNCHANGED <<default_pool, pools, heap, bases, amounts, statics>>

Sign(i) == Truth("sign", i, ToString(sign(amounts[i])))

Zero(i) == Truth("zero", i, Bool(zero(World, amounts[i])))

Nonzero(i) == Truth("nonzero", i, Bool(nonzero(World, amounts[i])))

OperatorBool(i) == Truth("bool", i, Bool(operator_bool(World, amounts[i])))

Realzero(i) == Truth("realzero", i, Bool(realzero(amounts[i])))

NextUnary ==
  \/ initialize
  \/ ParseConversion(Hour, Minutes)
  \/ \E text \in UnaryTexts, style \in ReduceFlags : ParseString(1, text, style)
  \/ \E c \in priced, arg \in DisplayPrecisions : SetPrecision(c, arg)
  \/ Negate
  \/ Minus
  \/ AbsValue
  \/ Reduce
  \/ Unreduce
  \/ NumberOf
  \/ Round
  \/ \E prec \in RoundPrecisions : RoundTo(prec)
  \/ Sign(1)
  \/ Zero(1)
  \/ Nonzero(1)
  \/ OperatorBool(1)
  \/ Realzero(1)

SpecUnary == Init /\ [][NextUnary]_vars

(***************************************************************************)
(* The claims about the unary operations and the truth tests.              *)
(***************************************************************************)
\* C16: round() returns the amount unchanged when it has no commodity and
\* otherwise what round(p) returns for p the display precision of its
\* commodity; rounding twice to a precision gives what rounding once gives.
C16_RoundToDisplayPrecision ==
  /\ last.op = "round" =>
       amounts[2] = IF ~has_commodity(amounts[1]) THEN amounts[1]
                    ELSE round_to(amounts[1],
                                  precision(World, commodity(amounts[1]))).ret
  /\ last.op = "round_to" =>
       /\ amounts[2] = round_to(amounts[1], last.size).ret
       /\ round_to(amounts[2], last.size).ret = amounts[2]
  /\ \A i \in AmountIds, p \in 0..(MaxPrecision + 1) :
       round_to(round_to(amounts[i], p).ret, p).ret = round_to(amounts[i], p).ret

\* round() has rounded an amount with a commodity to fewer digits.
C16_Witness ==
  /\ last.op = "round"
  /\ has_commodity(amounts[1])
  /\ amounts[1].quantity[1].prec > precision(World, amounts[1].commodity_)
  /\ amounts[2].quantity[1].prec = precision(World, amounts[1].commodity_)
  /\ amounts[2] /= amounts[1]

\* C18: nonzero() and operator bool answer the negation of zero();
\* realzero() answers whether the internal value is zero; realzero()
\* implies zero(), and an amount that is zero() and not realzero() has a
\* commodity at whose display precision its nonzero value rounds to zero.
C18_TruthTests ==
  /\ last.op \in {"nonzero", "bool"} =>
       last.value = Bool(~zero(World, amounts[last.x]))
  /\ last.op = "zero" =>
       last.value = Bool(~nonzero(World, amounts[last.x]))
  /\ last.op = "realzero" =>
       (last.value = "true" <=>
          \/ amounts[last.x].quantity = None
          \/ amounts[last.x].quantity[1].val = 0)
  /\ last.op = "sign" =>
       (last.value = "0" <=> realzero(amounts[last.x]))
  /\ \A i \in AmountIds :
       LET a == amounts[i]
       IN /\ realzero(a) => zero(World, a)
          /\ zero(World, a) /\ ~realzero(a) =>
               /\ has_commodity(a)
               /\ a.quantity[1].val /= 0
               /\ a.quantity[1].prec > precision(World, a.commodity_)
               /\ 2 * Abs(a.quantity[1].val)
                    <= Pow10(a.quantity[1].prec - precision(World, a.commodity_))

\* nonzero() has answered false for $0.004 while $ is displayed with 2 digits.
C18_Witness ==
  /\ last.op = "nonzero"
  /\ last.value = "false"
  /\ ~realzero(amounts[last.x])
  /\ has_commodity(amounts[last.x])
  /\ symbol(World, amounts[last.x].commodity_) = "$"
  /\ precision(World, amounts[last.x].commodity_) = 2
  /\ amounts[last.x].quantity = Some(bigint_t(4, 3))

ConstOps == {"negate", "minus", "abs", "reduce", "unreduce", "number"}

\* C19: negate(), unary minus, abs(), reduce(), unreduce() and number()
\* leave the amount they are called on, and the pools, as they were; negate
\* and unary minus return the negated quantity in the same commodity, abs()
\* returns what negate() returns when sign() < 0 and the amount itself
\* otherwise, number() returns the same quantity without a commodity.
C19_ReceiverUnchanged ==
  [][last'.op \in ConstOps =>
       /\ amounts'[last'.x] = amounts[last'.x]
       /\ ~PoolChanged
       /\ last'.op \in {"negate", "minus"} /\ amounts[last'.x].quantity /= None =>
            /\ amounts'[last'.y].quantity[1].val = -amounts[last'.x].quantity[1].val
            /\ amounts'[last'.y].quantity[1].prec = amounts[last'.x].quantity[1].prec
            /\ amounts'[last'.y].commodity_ = amounts[last'.x].commodity_
       /\ last'.op = "abs" =>
            amounts'[last'.y] = IF sign(amounts[last'.x]) < 0
                                  THEN negate(amounts[last'.x]).ret
                                  ELSE amounts[last'.x]
       /\ last'.op = "abs" /\ amounts[last'.x].quantity /= None =>
            /\ amounts'[last'.y].quantity[1].val = Abs(amounts[last'.x].quantity[1].val)
            /\ amounts'[last'.y].commodity_ = amounts[last'.x].commodity_
       /\ last'.op = "number" =>
            /\ amounts'[last'.y].quantity = amounts[last'.x].quantity
            /\ bare(WorldNext, amounts'[last'.y].commodity_)
    ]_vars

\* abs() has been called on a negative amount with a commodity.
C19_Witness ==
  /\ last.op = "abs"
  /\ has_commodity(amounts[last.x])
  /\ sign(amounts[last.x]) < 0
  /\ sign(amounts[last.y]) > 0
  /\ amounts[last.y].commodity_ = amounts[last.x].commodity_

(***************************************************************************)
(* The claim about serialization.                                          *)
(***************************************************************************)
\* C17: reading what a.write(out) wrote, against the pool of a's commodity
\* as it was when a was written, gives an amount with the quantity, the
\* scale and the commodity of a: an absent quantity is read as absent, a
\* commodity is read as the same commodity, no commodity as no commodity.
C17_ReadWhatWasWritten ==
  [][(/\ last'.op \in {"read_stream", "read_buffer"}
      /\ default_pool /= NULL
      /\ \/ amounts[last'.y].commodity_ = NULL
         \/ heap[amounts[last'.y].commodity_].parent_ = default_pool) =>
       LET a == amounts[last'.y]
           b == amounts'[last'.x]
       IN /\ last'.err = ""
          /\ ~PoolChanged
          /\ a.quantity = None <=> b.quantity = None
          /\ a.quantity /= None =>
               /\ b.quantity[1].val = a.quantity[1].val
               /\ b.quantity[1].prec = a.quantity[1].prec
          /\ IF has_commodity(a) THEN b.commodity_ = a.commodity_
             ELSE bare(WorldNext, b.commodity_)
          /\ write(WorldNext, b) = write(World, a)
    ]_vars

\* A negative amount with a commodity has been written and read back.
C17_Witness ==
  /\ last.op = "read_stream"
  /\ last.err = ""
  /\ amounts[last.y].quantity /= None
  /\ amounts[last.y].quantity[1].val < 0
  /\ has_commodity(amounts[last.y])
  /\ amounts[last.x].quantity[1].val = amounts[last.y].quantity[1].val
  /\ amounts[last.x].commodity_ = amounts[last.y].commodity_

(***************************************************************************)
(* The claim about amounts without a commodity.                            *)
(***************************************************************************)
\* The handle of a is null or is the null commodity of the pool it is of.
commodity_less(a) ==
  \/ a.commodity_ = NULL
  \/ a.commodity_ = pools[heap[a.commodity_].parent_].null_commodity

\* C20: an amount has a commodity iff its handle is not null and is not the
\* null commodity of the handle's own pool; commodity() of an amount without
\* a commodity is the null commodity of the default pool, whichever pool the
\* handle is of, so two such amounts have the same commodity and a == b
\* between them is the comparison of their quantities.
C20_NullCommodityOfDefaultPool ==
  /\ \A i \in AmountIds :
       commodity_defined(amounts[i]) =>
         /\ has_commodity(amounts[i]) <=> ~commodity_less(amounts[i])
         /\ commodity_less(amounts[i]) =>
              commodity(amounts[i]) = pools[default_pool].null_commodity
  /\ \A i, j \in AmountIds :
       (/\ amount_eq_defined(amounts[i], amounts[j])
        /\ commodity_less(amounts[i])
        /\ commodity_less(amounts[j])) =>
         /\ commodity(amounts[i]) = commodity(amounts[j])
         /\ amount_eq_value(amounts[i], amounts[j])
              = Bool(compare(amounts[i], amounts[j]) = 0)
         /\ (last.op = "amount_eq" /\ last.x = i /\ last.y = j) =>
              last.value = Bool(compare(amounts[i], amounts[j]) = 0)

\* Two amounts whose handles are the null commodities of two pools have been
\* compared and found equal.
C20_Witness ==
  /\ last.op = "amount_eq"
  /\ last.value = "true"
  /\ last.x /= last.y
  /\ amounts[last.x].quantity /= None
  /\ amounts[last.x].commodity_ /= NULL
  /\ amounts[last.y].commodity_ /= NULL
  /\ amounts[last.x].commodity_ /= amounts[last.y].commodity_
  /\ amount_eq_defined(amounts[last.x], amounts[last.y])
  /\ commodity_less(amounts[last.x])
  /\ commodity_less(amounts[last.y])

====
